---- MODULE Spec2Model ----
(***************************************************************************)
(* Tier Progression Analytics of the fellowship dashboard.                 *)
(*                                                                         *)
(* Three pipelines of the repository are modelled:                         *)
(*   - the aggregators: load_and_process_data (pages/Enhance.py) and the   *)
(*     SQL of create_materialized_view (utils/database/connection.py);     *)
(*   - the movement classifier: calculate_movements                        *)
(*     (enhanced_tier_analysis/analysis/movement.py; the same code is      *)
(*     repeated in pages/1_Classroom_Observations/tier_progression.py);    *)
(*   - the pattern detectors of sections.py, app.py and                    *)
(*     tier_progression.py.                                                *)
(*                                                                         *)
(* Numbers: the code computes in floating point (pandas) and in SQL        *)
(* numeric.  The model computes with exact rationals [n, d] in lowest      *)
(* terms (d > 0); NaN is the record with d = 0.                            *)
(***************************************************************************)
EXTENDS Integers, Sequences, FiniteSets, TLC

VARIABLES
    observations,   \* rows of v_observation_full / domain_scores (input)
    df_agg,         \* result of load_and_process_data (Enhance.py)
    mv,             \* rows of mv_comprehensive_tier_analysis
    df,             \* stats table handed to the analysis functions
    segment_col,    \* the caller's segmentation choice
    movement_df,    \* result of calculate_movements
    notes,          \* pattern notes, one list per detector
    called,         \* the handlers that have run so far
    insights,       \* what the narrative and recommendation helpers wrote
    raised,         \* the exception the last handler raised to its caller
    cache           \* the entries of st.cache_data

vars == <<observations, df_agg, mv, df, segment_col, movement_df, notes, called,
          insights, raised, cache>>

----------------------------------------------------------------------------
(* Bounds of the model                                                     *)

MaxObs == 5
MaxRows == 3

----------------------------------------------------------------------------
(* Exact rational arithmetic                                               *)

Abs(x) == IF x < 0 THEN -x ELSE x

RECURSIVE GCD(_, _)
GCD(a, b) == IF b = 0 THEN a ELSE GCD(b, a % b)

Rat(n, d) ==
    LET g == GCD(Abs(n), Abs(d))
    IN  IF d < 0 THEN [n |-> (-n) \div g, d |-> (-d) \div g]
                 ELSE [n |-> n \div g, d |-> d \div g]

NaN == [n |-> 0, d |-> 0]
IsNaN(x) == x.d = 0
FromInt(k) == [n |-> k, d |-> 1]

RAdd(x, y) == Rat(x.n * y.d + y.n * x.d, x.d * y.d)
RSub(x, y) == Rat(x.n * y.d - y.n * x.d, x.d * y.d)
RMulInt(k, x) == Rat(k * x.n, x.d)
RDivInt(x, k) == Rat(x.n, x.d * k)
RAbs(x) == [n |-> Abs(x.n), d |-> x.d]
RLt(x, y) == x.n * y.d < y.n * x.d
RLe(x, y) == x.n * y.d <= y.n * x.d
RGt(x, y) == RLt(y, x)
RGe(x, y) == RLe(y, x)

RECURSIVE RSum(_)
RSum(s) == IF s = <<>> THEN FromInt(0) ELSE RAdd(Head(s), RSum(Tail(s)))

\* pandas Series.mean(): NaN on an empty selection
RMean(s) == IF s = <<>> THEN NaN ELSE RDivInt(RSum(s), Len(s))

\* SQL ROUND(x, 0) and ROUND(x, 2) on a non-negative numeric: half rounds up
SqlRound0(x) == FromInt((2 * x.n + x.d) \div (2 * x.d))
SqlRound2(x) == Rat((200 * x.n + x.d) \div (2 * x.d), 100)

----------------------------------------------------------------------------
(* Sequence helpers                                                        *)

MapSeq(F(_), s) == [i \in 1..Len(s) |-> F(s[i])]

RECURSIVE Flatten(_)
Flatten(ss) == IF ss = <<>> THEN <<>> ELSE Head(ss) \o Flatten(Tail(ss))

Range(s) == {s[i] : i \in 1..Len(s)}

\* position of a value in a sequence without repetitions (0 when absent)
IndexOf(s, v) == IF v \in Range(s) THEN CHOOSE i \in 1..Len(s) : s[i] = v ELSE 0

----------------------------------------------------------------------------
(* Vocabulary                                                              *)

None == "None"

TERM_ORDER == <<"Term 1", "Term 2", "Term 3", "Term 4">>

\* the domain codes of DOMAIN_COLORS, in the order sorted() gives them
DOMAINS == <<"AII", "IAL", "IAN", "KPC", "LE", "SE">>

\* the values of the two segment columns, in sorted order
SCHOOL_LEVELS == <<"High School", "Primary School">>
YEAR_LABELS == <<"Year 1", "Year 2">>

TIERS == <<"Tier 1", "Tier 2", "Tier 3">>

----------------------------------------------------------------------------
(* Observation rows                                                        *)
(*                                                                         *)
(* A row of v_observation_full as load_and_process_data reads it           *)
(* (Enhance.py:31-32), with the school_level of observation_metadata that  *)
(* the materialized view joins in (connection.py:120).  The rows the model *)
(* draws are of one term and one domain, with the three tiers, two schools *)
(* and a fellowship year that is 1 or missing; the score goes with the     *)
(* tier.                                                                   *)

ObsTerms == <<"Term 1">>
ObsSchools == <<[school_name |-> "Hill High", school_level |-> "High School"],
                [school_name |-> "Oak Primary", school_level |-> "Primary School"]>>
ObsYears == <<"1", None>>
\* 1.2, 2.4 and 3.5
ObsScores == <<[n |-> 6, d |-> 5], [n |-> 12, d |-> 5], [n |-> 7, d |-> 2]>>

NumObsKinds == Len(TIERS) * Len(ObsSchools) * Len(ObsYears) * Len(ObsTerms)

ObsKind(i) ==
    LET k  == i - 1
        ti == k % 3
        si == (k \div 3) % 2
        yi == (k \div 6) % 2
        te == (k \div 12) % Len(ObsTerms)
    IN  [term            |-> ObsTerms[te + 1],
         domain          |-> "LE",
         score           |-> ObsScores[ti + 1],
         classification  |-> TIERS[ti + 1],
         fellowship_year |-> ObsYears[yi + 1],
         school_name     |-> ObsSchools[si + 1].school_name,
         school_level    |-> ObsSchools[si + 1].school_level]

RECURSIVE SortedIdx(_, _)
SortedIdx(n, lo) ==
    IF n = 0 THEN {<<>>}
    ELSE UNION {{<<i>> \o s : s \in SortedIdx(n - 1, i)} : i \in lo..NumObsKinds}

ObsKinds == [i \in 1..NumObsKinds |-> ObsKind(i)]

\* every table of at most MaxObs rows (row order is irrelevant to groupby)
ObservationTables ==
    {[j \in 1..Len(s) |-> ObsKinds[s[j]]] :
        s \in UNION {SortedIdx(n, 1) : n \in 0..MaxObs}}

----------------------------------------------------------------------------
(* Aggregator of pages/Enhance.py: load_and_process_data                   *)

\* str(x).lower() contains 'high' or 'secondary' (Enhance.py:41)
NamesHighSchool(name) == name \in {"Hill High", "Dale Secondary"}

school_level_of(name) ==
    IF NamesHighSchool(name) THEN "High School" ELSE "Primary School"

\* f"Year {int(x)}" if pd.notna(x) else None (Enhance.py:37)
year_label(x) == IF x = None THEN None ELSE "Year " \o x

\* pd.Categorical(df['term'], categories=TERM_ORDER): other values become NaN
categorical_term(t) == IF t \in Range(TERM_ORDER) THEN t ELSE None

\* Enhance.py:30-42: copy of the columns, dropna, term order, derived columns
clean(df_raw) ==
    LET kept(r) == r.domain /= None /\ r.classification /= None
        conv(r) == [term            |-> categorical_term(r.term),
                    domain          |-> r.domain,
                    score           |-> r.score,
                    classification  |-> r.classification,
                    fellowship_year |-> year_label(r.fellowship_year),
                    school_name     |-> r.school_name,
                    school_level    |-> school_level_of(r.school_name)]
    IN  MapSeq(conv, SelectSeq(df_raw, kept))

group_names == <<"Overall", "School Level", "Fellowship Year">>

segment_type_of(group_name) ==
    CASE group_name = "Overall" -> None
      [] group_name = "School Level" -> "school_level"
      [] group_name = "Fellowship Year" -> "fellowship_year"

\* mutant: the Overall scheme is keyed by the fellowship year as well
segment_of_year_in_overall(r, group_name) ==
    CASE group_name = "Overall" -> r.fellowship_year
      [] group_name = "School Level" -> r.school_level
      [] group_name = "Fellowship Year" -> r.fellowship_year

\* the value of the group's third key column on a row (None for Overall)
segment_of(r, group_name) ==
    CASE group_name = "Overall" -> None
      [] group_name = "School Level" -> r.school_level
      [] group_name = "Fellowship Year" -> r.fellowship_year

SegValues(group_name) ==
    CASE group_name = "Overall" -> <<None>>
      [] group_name = "School Level" -> SCHOOL_LEVELS
      [] group_name = "Fellowship Year" -> YEAR_LABELS

\* the keys df.groupby(group_cols) can yield, in its sorted order; a row
\* whose key column is null (NaN term, None year) belongs to no group
GroupKeys ==
    [group_name \in Range(group_names) |->
        LET sv == SegValues(group_name)
            ns == Len(sv)
            nd == Len(DOMAINS)
        IN  [i \in 1..(Len(TERM_ORDER) * nd * ns) |->
                [term   |-> TERM_ORDER[((i - 1) \div (nd * ns)) + 1],
                 domain |-> DOMAINS[(((i - 1) \div ns) % nd) + 1],
                 seg    |-> sv[((i - 1) % ns) + 1]]]]

\* the key of a row under a grouping scheme
KeyOf(r, group_name) ==
    [term |-> r.term, domain |-> r.domain, seg |-> segment_of(r, group_name)]

Group(d, group_name, key) ==
    SelectSeq(d, LAMBDA r : KeyOf(r, group_name) = key)

\* Enhance.py:57: groups of fewer than three rows are skipped
MinGroupSize == 3

\* mutant: a group of exactly the minimum size is skipped too
TooSmallInclusive(group) == Len(group) <= MinGroupSize

TooSmall(group) == Len(group) < MinGroupSize

\* tier_counts.get(tier, 0)
TierCount(group, tier) == Len(SelectSeq(group, LAMBDA r : r.classification = tier))

\* mutant: floor division of the counts before scaling
TierPctFloorDiv(count, total) == Rat(100 * (count \div total), 1)

\* (tier_counts.get(tier, 0) / total) * 100 (Enhance.py:74-76)
TierPct(count, total) == Rat(100 * count, total)

\* group[group['classification'] == tier]['score'].mean() (Enhance.py:79-81)
TierScore(group, tier) ==
    RMean(MapSeq(LAMBDA r : r.score,
                 SelectSeq(group, LAMBDA r : r.classification = tier)))

\* mutant: the sum of the scores, never divided by the count
DomainAvgSum(group) == RSum(MapSeq(LAMBDA r : r.score, group))

\* group['score'].mean() (Enhance.py:84)
DomainAvg(group) == RMean(MapSeq(LAMBDA r : r.score, group))

\* mutant: the weight of Tier 3 is that of Tier 2
DominantIndexFlatTop(t1_pct, t2_pct, t3_pct) ==
    RDivInt(RAdd(RAdd(RMulInt(1, t1_pct), RMulInt(2, t2_pct)), RMulInt(2, t3_pct)), 100)

\* mutant: tier positions counted from zero
DominantIndexZeroBased(t1_pct, t2_pct, t3_pct) ==
    RDivInt(RAdd(RAdd(RMulInt(0, t1_pct), RMulInt(1, t2_pct)), RMulInt(2, t3_pct)), 100)

\* mutant: the weights of Tier 2 and Tier 3 are exchanged
DominantIndexSwapped(t1_pct, t2_pct, t3_pct) ==
    RDivInt(RAdd(RAdd(RMulInt(1, t1_pct), RMulInt(3, t2_pct)), RMulInt(2, t3_pct)), 100)

\* (1 * t1_pct + 2 * t2_pct + 3 * t3_pct) / 100 (Enhance.py:87)
DominantIndex(t1_pct, t2_pct, t3_pct) ==
    RDivInt(RAdd(RAdd(RMulInt(1, t1_pct), RMulInt(2, t2_pct)), RMulInt(3, t3_pct)), 100)

\* Enhance.py:60-103: one row of agg_list
AggRow(group_name, key, group) ==
    LET total  == Len(group)
        t1_pct == TierPct(TierCount(group, "Tier 1"), total)
        t2_pct == TierPct(TierCount(group, "Tier 2"), total)
        t3_pct == TierPct(TierCount(group, "Tier 3"), total)
    IN  [term              |-> key.term,
         domain            |-> key.domain,
         segment_type      |-> segment_type_of(group_name),
         segment_value     |-> key.seg,
         tier_mix_t1_pct   |-> t1_pct,
         tier_mix_t2_pct   |-> t2_pct,
         tier_mix_t3_pct   |-> t3_pct,
         avg_tier_score_t1 |-> TierScore(group, "Tier 1"),
         avg_tier_score_t2 |-> TierScore(group, "Tier 2"),
         avg_tier_score_t3 |-> TierScore(group, "Tier 3"),
         domain_avg        |-> DomainAvg(group),
         dominant_index    |-> DominantIndex(t1_pct, t2_pct, t3_pct),
         observation_count |-> total]

\* Enhance.py:53-103: the rows one grouping scheme contributes
GroupRows(d, group_name) ==
    LET present == {KeyOf(r, group_name) : r \in Range(d)}
        grouped == SelectSeq(GroupKeys[group_name], LAMBDA k : k \in present)
        emitted == SelectSeq(grouped,
                             LAMBDA k : ~TooSmall(Group(d, group_name, k)))
    IN  MapSeq(LAMBDA k : AggRow(group_name, k, Group(d, group_name, k)), emitted)

\* mutant: an empty input yields one stat of no observations
load_and_process_data_zero_stat(df_raw) ==
    IF df_raw = <<>>
    THEN [df |-> <<>>, df_agg |-> <<[observation_count |-> 0]>>]
    ELSE LET d == clean(df_raw)
         IN  [df     |-> d,
              df_agg |-> Flatten([g \in 1..Len(group_names) |->
                                     GroupRows(d, group_names[g])])]

\* Enhance.py:22-106: returns (df, df_agg)
load_and_process_data(df_raw) ==
    IF df_raw = <<>>
    THEN [df |-> <<>>, df_agg |-> <<>>]
    ELSE LET d == clean(df_raw)
         IN  [df     |-> d,
              df_agg |-> Flatten([g \in 1..Len(group_names) |->
                                     GroupRows(d, group_names[g])])]

----------------------------------------------------------------------------
(* Aggregator of utils/database/connection.py: the SQL of                  *)
(* create_materialized_view (mv_comprehensive_tier_analysis).  The columns *)
(* built from strongest_tier, weakest_tier and tier_N_score, which the     *)
(* observation rows of the model do not carry, are left out.               *)

MV_YEARS == <<"1", "2">>

\* connection.py:129-136: the joined rows with no NULL in the key columns
tier_calculations(rows) ==
    SelectSeq(rows, LAMBDA r : /\ r.term /= None
                               /\ ~IsNaN(r.score)
                               /\ r.classification /= None
                               /\ r.fellowship_year /= None
                               /\ r.school_level /= None)

\* GROUP BY term, domain, fellow_year, school_level with the ORDER BY of
\* connection.py:233
MvKeys ==
    LET nd == Len(DOMAINS)
        ny == Len(MV_YEARS)
        nl == Len(SCHOOL_LEVELS)
    IN  [i \in 1..(Len(TERM_ORDER) * nd * ny * nl) |->
            [term         |-> TERM_ORDER[((i - 1) \div (nd * ny * nl)) + 1],
             domain       |-> DOMAINS[(((i - 1) \div (ny * nl)) % nd) + 1],
             fellow_year  |-> MV_YEARS[(((i - 1) \div nl) % ny) + 1],
             school_level |-> SCHOOL_LEVELS[((i - 1) % nl) + 1]]]

MvKeyOf(r) ==
    [term |-> r.term, domain |-> r.domain,
     fellow_year |-> r.fellowship_year, school_level |-> r.school_level]

MvGroup(rows, key) == SelectSeq(rows, LAMBDA r : MvKeyOf(r) = key)

\* ROUND(SUM(CASE WHEN tier_status_lax = tier THEN 1 ELSE 0 END) * 100.0
\*       / COUNT(*), 0) (connection.py:151-164)
MvTierPct(count, total) == SqlRound0(Rat(100 * count, total))

\* ROUND(c1 * 1.0 / COUNT(*) + c2 * 2.0 / COUNT(*) + c3 * 3.0 / COUNT(*), 2)
\* (connection.py:173-178)
MvDominantIndex(c1, c2, c3, total) ==
    SqlRound2(RAdd(RAdd(Rat(c1 * 1, total), Rat(c2 * 2, total)), Rat(c3 * 3, total)))

\* connection.py:139-199: one row of segment_stats
MvRow(key, group) ==
    LET total == Len(group)
        c1 == TierCount(group, "Tier 1")
        c2 == TierCount(group, "Tier 2")
        c3 == TierCount(group, "Tier 3")
    IN  [term               |-> key.term,
         domain             |-> key.domain,
         fellow_year        |-> key.fellow_year,
         school_level       |-> key.school_level,
         domain_avg         |-> SqlRound2(DomainAvg(group)),
         dominant_index     |-> MvDominantIndex(c1, c2, c3, total),
         tier_mix_t1_pct    |-> MvTierPct(c1, total),
         tier_mix_t2_pct    |-> MvTierPct(c2, total),
         tier_mix_t3_pct    |-> MvTierPct(c3, total),
         total_observations |-> total]

\* connection.py:113-233: the rows of the view over the given source rows
create_materialized_view(rows) ==
    LET tc == tier_calculations(rows)
        present == {MvKeyOf(r) : r \in Range(tc)}
        grouped == SelectSeq(MvKeys, LAMBDA k : k \in present)
    IN  MapSeq(LAMBDA k : MvRow(k, MvGroup(tc, k)), grouped)

----------------------------------------------------------------------------
(* The aggregation pipeline: a table of observations, aggregated by the    *)
(* page (Enhance.py) and by the materialized view.                         *)

NoNotes == [sections |-> <<>>, app |-> <<>>, tier_progression |-> <<>>]

\* nothing written yet by _narrate_tier_mix_comprehensive (cards),
\* _analyze_segment_differences (gaps), _analyze_progression_patterns
\* (progression), _provide_strategic_recommendations (recs) and
\* _create_strategic_recommendations of app.py (app)
NoInsights == [cards |-> <<>>, gaps |-> <<>>, progression |-> <<>>, recs |-> <<>>,
               app |-> <<>>]

\* st.cache_data holds no entry for either cached function; an entry is the
\* cached return value and its age in seconds
NoCache ==
    [load_and_process_data |->
        [present |-> FALSE, value |-> [df |-> <<>>, df_agg |-> <<>>], age |-> 0],
     load_tier_analysis_data |-> [present |-> FALSE, value |-> <<>>, age |-> 0]]

Init ==
    /\ observations \in ObservationTables
    /\ df_agg = <<>>
    /\ mv = <<>>
    /\ df = <<>>
    /\ segment_col = None
    /\ movement_df = <<>>
    /\ notes = NoNotes
    /\ called = {}
    /\ insights = NoInsights
    /\ raised = None
    /\ cache = NoCache

\* mutant: the list of stats outlives the call
agg_list_kept(previous) == previous

\* Enhance.py:45: agg_list = [], whatever an earlier call appended
agg_list(previous) == <<>>

\* Enhance.py:109: df_raw, df_agg = load_and_process_data()
LoadAndProcessData ==
    /\ df_agg' = agg_list(df_agg) \o load_and_process_data(observations).df_agg
    /\ called' = called \cup {"load_and_process_data"}
    /\ UNCHANGED <<observations, mv, df, segment_col, movement_df, notes, insights, raised, cache>>

\* connection.py:105-252: CREATE MATERIALIZED VIEW IF NOT EXISTS
CreateMaterializedView ==
    /\ "create_materialized_view" \notin called
    /\ mv' = create_materialized_view(observations)
    /\ called' = called \cup {"create_materialized_view"}
    /\ UNCHANGED <<observations, df_agg, df, segment_col, movement_df, notes, insights, raised, cache>>

Next == LoadAndProcessData \/ CreateMaterializedView

Spec == Init /\ [][Next]_vars

----------------------------------------------------------------------------
(* Stats tables: the rows of mv_comprehensive_tier_analysis as             *)
(* load_tier_analysis_data returns them (connection.py:55-60), ordered by  *)
(* term, domain, fellow_year, school_level, at most one row per key.  The  *)
(* tables the model draws are of one domain and three terms, with three    *)
(* tier distributions.                                                     *)

DfTerms == <<"Term 1", "Term 2", "Term 3">>
DfDomains == <<"LE">>

\* (tier_mix_t1_pct, tier_mix_t2_pct, tier_mix_t3_pct, dominant_index * 100)
TierMixes == <<<<42, 18, 40, 198>>, <<40, 18, 42, 202>>, <<35, 20, 45, 210>>>>

\* the (fellow_year, school_level) cohorts that have observations
DfCohorts == <<<<MV_YEARS[1], SCHOOL_LEVELS[1]>>, <<MV_YEARS[1], SCHOOL_LEVELS[2]>>,
               <<MV_YEARS[2], SCHOOL_LEVELS[2]>>>>

NumDfKeys == Len(DfTerms) * Len(DfDomains) * Len(DfCohorts)

StatsRow(k, m) ==
    LET nc == Len(DfCohorts)
        nd == Len(DfDomains)
    IN  [term            |-> DfTerms[((k - 1) \div (nd * nc)) + 1],
         domain          |-> DfDomains[(((k - 1) \div nc) % nd) + 1],
         fellow_year     |-> DfCohorts[((k - 1) % nc) + 1][1],
         school_level    |-> DfCohorts[((k - 1) % nc) + 1][2],
         tier_mix_t1_pct |-> FromInt(TierMixes[m][1]),
         tier_mix_t2_pct |-> FromInt(TierMixes[m][2]),
         tier_mix_t3_pct |-> FromInt(TierMixes[m][3]),
         dominant_index  |-> Rat(TierMixes[m][4], 100)]

StatsRows == [k \in 1..NumDfKeys |-> [m \in 1..Len(TierMixes) |-> StatsRow(k, m)]]

\* the strictly increasing sequences of n keys, the first at least lo
RECURSIVE KeyChoices(_, _)
KeyChoices(n, lo) ==
    IF n = 0 THEN {<<>>}
    ELSE UNION {{<<k>> \o s : s \in KeyChoices(n - 1, k + 1)} : k \in lo..NumDfKeys}

StatsTables ==
    UNION {{[j \in 1..Len(ks) |-> StatsRows[ks[j]][ms[j]]] :
               ms \in [1..Len(ks) -> 1..Len(TierMixes)]} :
           ks \in UNION {KeyChoices(n, 1) : n \in 0..MaxRows}}

\* the segmentation choices a caller passes
SegmentChoices == {None, "both", "school_level", "fellow_year"}

----------------------------------------------------------------------------
(* Movement classifier: enhanced_tier_analysis/analysis/movement.py        *)
(* (repeated as _create_movement_analysis and _calculate_movements in      *)
(* pages/1_Classroom_Observations/tier_progression.py:349-393)             *)

\* df.sort_values('term') on rows of one domain: by term, rows of one term
\* keep their order
sort_values_term(rows) ==
    Flatten([t \in 1..Len(TERM_ORDER) |->
                SelectSeq(rows, LAMBDA r : r.term = TERM_ORDER[t])])

\* mutant: terms in descending order
sorted_terms_descending(data) ==
    LET present == {data[i].term : i \in 1..Len(data)}
        asc == SelectSeq(TERM_ORDER, LAMBDA t : t \in present)
    IN  [i \in 1..Len(asc) |-> asc[Len(asc) + 1 - i]]

\* sorted(data['term'].unique()) (movement.py:27)
sorted_terms(data) ==
    LET present == {data[i].term : i \in 1..Len(data)}
    IN  SelectSeq(TERM_ORDER, LAMBDA t : t \in present)

\* sorted(df[col].unique()) for the domain and the segment columns
sorted_unique(rows, col, order) ==
    LET present == {rows[i][col] : i \in 1..Len(rows)}
    IN  SelectSeq(order, LAMBDA v : v \in present)

ColumnOrder(col) ==
    CASE col = "domain" -> DOMAINS
      [] col = "school_level" -> SCHOOL_LEVELS
      [] col = "fellow_year" -> MV_YEARS

\* data[data['term'] == term].iloc[0] (movement.py:30-31)
first_of_term(data, term) == Head(SelectSeq(data, LAMBDA r : r.term = term))

MovementThreshold == 2

\* mutant: the thresholds are inclusive
movement_type_inclusive(t3_change) ==
    IF RGe(t3_change, FromInt(MovementThreshold)) THEN "Improvement"
    ELSE IF RLe(t3_change, FromInt(-MovementThreshold)) THEN "Decline"
    ELSE "Stable"

\* "Improvement" if t3_change > 2 else "Decline" if t3_change < -2 else
\* "Stable" (movement.py:36)
movement_type(t3_change) ==
    IF RGt(t3_change, FromInt(MovementThreshold)) THEN "Improvement"
    ELSE IF RLt(t3_change, FromInt(-MovementThreshold)) THEN "Decline"
    ELSE "Stable"

\* mutant: every term is paired with the first term
period_from_first(terms, i) == <<terms[1], terms[i + 1]>>

\* the two terms of step i of the loop (movement.py:29-31)
period(terms, i) == <<terms[i], terms[i + 1]>>

\* movement.py:26-45: the records appended for one domain and segment.  A
\* record keeps the two differences as computed; the code stores them
\* formatted for display ("+2.0%", "+0.04").
calculate_domain_movements(data, domain, segment_val) ==
    LET terms == sorted_terms(data)
    IN  [i \in 1..(Len(terms) - 1) |->
            LET p            == period(terms, i)
                current_term == first_of_term(data, p[1])
                next_term    == first_of_term(data, p[2])
                t3_change    == RSub(next_term.tier_mix_t3_pct,
                                     current_term.tier_mix_t3_pct)
                index_change == RSub(next_term.dominant_index,
                                     current_term.dominant_index)
            IN  [Domain       |-> domain,
                 Segment      |-> IF segment_val = None THEN "Overall" ELSE segment_val,
                 Period       |-> p,
                 T3_Change    |-> t3_change,
                 Index_Change |-> index_change,
                 Movement     |-> movement_type(t3_change)]]

\* mutant: each term is represented by its first row
mean_by_term_first_row(domain_data) ==
    LET terms == sorted_terms(domain_data)
        first(t) == first_of_term(domain_data, t)
    IN  [i \in 1..Len(terms) |->
            [term            |-> terms[i],
             tier_mix_t1_pct |-> first(terms[i]).tier_mix_t1_pct,
             tier_mix_t2_pct |-> first(terms[i]).tier_mix_t2_pct,
             tier_mix_t3_pct |-> first(terms[i]).tier_mix_t3_pct,
             dominant_index  |-> first(terms[i]).dominant_index]]

\* domain_data.groupby('term').agg({... 'mean'}).reset_index()
\* (movement.py:15-20)
mean_by_term(domain_data) ==
    LET terms == sorted_terms(domain_data)
        of(t) == SelectSeq(domain_data, LAMBDA r : r.term = t)
        mean(t, col) == RMean(MapSeq(LAMBDA r : r[col], of(t)))
    IN  [i \in 1..Len(terms) |->
            [term            |-> terms[i],
             tier_mix_t1_pct |-> mean(terms[i], "tier_mix_t1_pct"),
             tier_mix_t2_pct |-> mean(terms[i], "tier_mix_t2_pct"),
             tier_mix_t3_pct |-> mean(terms[i], "tier_mix_t3_pct"),
             dominant_index  |-> mean(terms[i], "dominant_index")]]

\* movement.py:3-23
calculate_movements(d, seg_col) ==
    LET domains == sorted_unique(d, "domain", ColumnOrder("domain"))
        of_domain(domain) ==
            LET domain_data ==
                    sort_values_term(SelectSeq(d, LAMBDA r : r.domain = domain))
            IN  IF seg_col /= None /\ seg_col /= "both"
                THEN LET segs == sorted_unique(domain_data, seg_col, ColumnOrder(seg_col))
                     IN  Flatten([j \in 1..Len(segs) |->
                            calculate_domain_movements(
                                SelectSeq(domain_data, LAMBDA r : r[seg_col] = segs[j]),
                                domain, segs[j])])
                ELSE calculate_domain_movements(mean_by_term(domain_data), domain, None)
    IN  Flatten([j \in 1..Len(domains) |-> of_domain(domains[j])])

----------------------------------------------------------------------------
(* Movement classifier of app.py: _prepare and _create_movement_analysis   *)

\* app.py:141-176: the copy of the view's rows the page works on
prepare(d) ==
    MapSeq(LAMBDA r : [r EXCEPT !.fellow_year = year_label(@),
                                !.term = categorical_term(@),
                                !.domain = IF @ = "IA" THEN "IAL" ELSE @], d)

\* mutant: _prepare works on the table it was handed
caller_frame_in_place(d) == prepare(d)

\* app.py:142: df = df.copy(); the assignments of lines 153-174 go to the
\* copy and the table the caller passed stays as it was
caller_frame(d) == d

ColumnOrderApp(col) ==
    CASE col = "domain" -> DOMAINS
      [] col = "school_level" -> SCHOOL_LEVELS
      [] col = "fellow_year" -> YEAR_LABELS

\* frame.groupby("term", as_index=False)[["tier_mix_t3_pct",
\* "dominant_index"]].mean().sort_values("term") (app.py:336-340); the
\* groups are the terms that occur in the frame
mean_by_term_app(frame) ==
    LET terms == sorted_terms(frame)
        of(t) == SelectSeq(frame, LAMBDA r : r.term = t)
    IN  [i \in 1..Len(terms) |->
            [term            |-> terms[i],
             tier_mix_t3_pct |-> RMean(MapSeq(LAMBDA r : r.tier_mix_t3_pct, of(terms[i]))),
             dominant_index  |-> RMean(MapSeq(LAMBDA r : r.dominant_index, of(terms[i])))]]

\* app.py:347
movement_app(d_t3) ==
    IF RGt(d_t3, FromInt(2)) THEN "Improvement"
    ELSE IF RLt(d_t3, FromInt(-2)) THEN "Decline"
    ELSE "Stable"

\* app.py:335-351
add_moves(frame, domain, segment) ==
    LET g == mean_by_term_app(frame)
    IN  [i \in 1..(Len(g) - 1) |->
            LET r1    == g[i]
                r2    == g[i + 1]
                d_t3  == RSub(r2.tier_mix_t3_pct, r1.tier_mix_t3_pct)
                d_idx == RSub(r2.dominant_index, r1.dominant_index)
            IN  [Domain       |-> domain,
                 Segment      |-> segment,
                 Period       |-> <<r1.term, r2.term>>,
                 T3_Change    |-> d_t3,
                 Index_Change |-> d_idx,
                 Movement     |-> movement_app(d_t3)]]

\* app.py:333-363: the rows of the table the page shows
create_movement_analysis(d, seg_col) ==
    LET domains == sorted_unique(d, "domain", ColumnOrderApp("domain"))
        of_domain(dom) ==
            LET dom_df == SelectSeq(d, LAMBDA r : r.domain = dom)
            IN  IF seg_col /= None /\ seg_col /= "both"
                THEN LET segs == sorted_unique(dom_df, seg_col, ColumnOrderApp(seg_col))
                     IN  Flatten([j \in 1..Len(segs) |->
                            add_moves(SelectSeq(dom_df, LAMBDA r : r[seg_col] = segs[j]),
                                      dom, segs[j])])
                ELSE add_moves(dom_df, dom, "Overall")
    IN  Flatten([j \in 1..Len(domains) |-> of_domain(domains[j])])

----------------------------------------------------------------------------
(* The movement pipeline: a stats table and the caller's segmentation      *)
(* choice, handed once to one of the two movement classifiers.             *)

InitMove ==
    /\ observations = <<>>
    /\ df_agg = <<>>
    /\ mv = <<>>
    /\ df \in StatsTables
    /\ segment_col = None
    /\ movement_df = <<>>
    /\ notes = NoNotes
    /\ called = {}
    /\ insights = NoInsights
    /\ raised = None
    /\ cache = NoCache

\* tier_mix_tables.py:185: movement_df = movement.calculate_movements(df, segment_col)
\* domain_data[segment_col] (movement.py:11) raises KeyError when the table
\* has rows and no such column
CalculateMovements ==
    \E seg \in SegmentChoices :
        /\ called = {}
        /\ segment_col' = seg
        /\ IF seg /= None /\ seg /= "both" /\ df /= <<>> /\ seg \notin DOMAIN df[1]
           THEN raised' = "KeyError" /\ movement_df' = movement_df
           ELSE raised' = raised /\ movement_df' = calculate_movements(df, seg)
        /\ called' = {"calculate_movements"}
        /\ UNCHANGED <<observations, df_agg, mv, df, notes, insights, cache>>

\* app.py:60, 196: df = self._prepare(df), then
\* self._create_movement_analysis(df, segment_col)
CreateMovementAnalysis ==
    \E seg \in SegmentChoices :
        /\ called = {}
        /\ segment_col' = seg
        /\ movement_df' = create_movement_analysis(prepare(df), seg)
        /\ df' = caller_frame(df)
        /\ called' = {"_create_movement_analysis"}
        /\ UNCHANGED <<observations, df_agg, mv, notes, insights, raised, cache>>

NextMove == CalculateMovements \/ CreateMovementAnalysis

SpecMove == InitMove /\ [][NextMove]_vars

----------------------------------------------------------------------------
(* Properties of the aggregators                                           *)

Loaded == "load_and_process_data" \in called
ViewCreated == "create_materialized_view" \in called

Hundred == FromInt(100)

\* tier_pct[1] + tier_pct[2] + tier_pct[3] of a stats row
PctSum(row) == RAdd(RAdd(row.tier_mix_t1_pct, row.tier_mix_t2_pct), row.tier_mix_t3_pct)

\* 1 * tier_pct[1] + 2 * tier_pct[2] + 3 * tier_pct[3] of a stats row
WeightedPct(row) ==
    RAdd(row.tier_mix_t1_pct,
         RAdd(RMulInt(2, row.tier_mix_t2_pct), RMulInt(3, row.tier_mix_t3_pct)))

Within(x, y, tol) == RLe(RAbs(RSub(x, y)), tol)

\* C1 as stated: in every aggregated row, of the page and of the view, the
\* three tier percentages sum to 100 within 1e-6.
C1_TierPctSumIs100 ==
    /\ \A i \in 1..Len(df_agg) : Within(PctSum(df_agg[i]), Hundred, Rat(1, 1000000))
    /\ \A i \in 1..Len(mv) : Within(PctSum(mv[i]), Hundred, Rat(1, 1000000))

\* C1 amended: the rows of load_and_process_data sum to exactly 100; the
\* rows of the materialized view hold percentages rounded to whole numbers
\* and sum to 99, 100 or 101.
C1_TierPctSumUpToRounding ==
    /\ \A i \in 1..Len(df_agg) : PctSum(df_agg[i]) = Hundred
    /\ \A i \in 1..Len(mv) : PctSum(mv[i]) \in {FromInt(99), Hundred, FromInt(101)}

\* a view row whose rounded percentages sum to 99 beside a page row of thirds
C1_Witness ==
    /\ Loaded /\ ViewCreated
    /\ \E i \in 1..Len(mv) : PctSum(mv[i]) = FromInt(99)
    /\ \E i \in 1..Len(df_agg) : df_agg[i].tier_mix_t1_pct = Rat(100, 3)

\* C2 as stated: in every aggregated row the stored dominant_index is
\* (1*t1 + 2*t2 + 3*t3) / 100 of the row's stored percentages.
C2_IndexFromStoredPct ==
    /\ \A i \in 1..Len(df_agg) :
          RMulInt(100, df_agg[i].dominant_index) = WeightedPct(df_agg[i])
    /\ \A i \in 1..Len(mv) :
          RMulInt(100, mv[i].dominant_index) = WeightedPct(mv[i])

\* C2 amended: equality holds in the rows of load_and_process_data; in the
\* rows of the view, where the index is rounded to two decimals from the
\* tier counts and the percentages are rounded to whole numbers, the two
\* differ by at most 0.035.
C2_IndexFromStoredPctUpToRounding ==
    /\ \A i \in 1..Len(df_agg) :
          RMulInt(100, df_agg[i].dominant_index) = WeightedPct(df_agg[i])
    /\ \A i \in 1..Len(mv) :
          Within(RMulInt(100, mv[i].dominant_index), WeightedPct(mv[i]), Rat(35, 10))

\* a view row whose index differs from the formula on its stored percentages
C2_Witness ==
    /\ Loaded /\ ViewCreated
    /\ df_agg /= <<>>
    /\ \E i \in 1..Len(mv) :
          RMulInt(100, mv[i].dominant_index) /= WeightedPct(mv[i])

\* C3: in every row of load_and_process_data, 1 <= dominant_index <= 3;
\* the index is 3 exactly when tier_pct[3] is 100 and 1 exactly when
\* tier_pct[1] is 100.
C3_IndexBounds ==
    \A i \in 1..Len(df_agg) :
        LET row == df_agg[i]
        IN  /\ RLe(FromInt(1), row.dominant_index)
            /\ RLe(row.dominant_index, FromInt(3))
            /\ (row.dominant_index = FromInt(3)) <=> (row.tier_mix_t3_pct = Hundred)
            /\ (row.dominant_index = FromInt(1)) <=> (row.tier_mix_t1_pct = Hundred)

\* rows at both ends of the scale and one strictly between
C3_Witness ==
    /\ Loaded
    /\ \E i \in 1..Len(df_agg) : df_agg[i].dominant_index = FromInt(3)
    /\ \E i \in 1..Len(df_agg) :
          /\ RLt(FromInt(1), df_agg[i].dominant_index)
          /\ RLt(df_agg[i].dominant_index, FromInt(3))
          /\ df_agg[i].tier_mix_t2_pct = FromInt(0)

\* the grouping key of a source row under a scheme, from the raw columns
RawKey(r, group_name) ==
    [term   |-> r.term,
     domain |-> r.domain,
     seg    |-> CASE group_name = "Overall" -> None
                  [] group_name = "School Level" ->
                        IF r.school_name = "Hill High" THEN "High School"
                        ELSE "Primary School"
                  [] group_name = "Fellowship Year" ->
                        IF r.fellowship_year = None THEN None
                        ELSE YEAR_LABELS[IndexOf(MV_YEARS, r.fellowship_year)]]

\* the number of source records of a grouping key
RecordsOf(group_name, key) ==
    Cardinality({i \in 1..Len(observations) :
                    RawKey(observations[i], group_name) = key})

\* the positions of the rows of df_agg emitted for a grouping key
StatsOf(group_name, key) ==
    {i \in 1..Len(df_agg) :
        /\ df_agg[i].segment_type = segment_type_of(group_name)
        /\ df_agg[i].term = key.term
        /\ df_agg[i].domain = key.domain
        /\ df_agg[i].segment_value = key.seg}

AllKeys == {<<g, k>> : g \in Range(group_names), k \in
               UNION {Range(GroupKeys[h]) : h \in Range(group_names)}}

SchemeKeys == {gk \in AllKeys : gk[2] \in Range(GroupKeys[gk[1]])}

BucketRecords(key) ==
    SelectSeq(observations, LAMBDA r : r.term = key.term /\ r.domain = key.domain)

BucketTier(key, tier) ==
    Len(SelectSeq(BucketRecords(key), LAMBDA r : r.classification = tier))

\* a stats row carries the statistics of the records of its (term, domain)
HasBucketStatistics(row, key) ==
    LET n == Len(BucketRecords(key))
    IN  /\ row.tier_mix_t1_pct = Rat(100 * BucketTier(key, "Tier 1"), n)
        /\ row.tier_mix_t2_pct = Rat(100 * BucketTier(key, "Tier 2"), n)
        /\ row.tier_mix_t3_pct = Rat(100 * BucketTier(key, "Tier 3"), n)
        /\ RMulInt(100, row.dominant_index) = WeightedPct(row)
        /\ RMulInt(n, row.domain_avg)
              = RSum(MapSeq(LAMBDA r : r.score, BucketRecords(key)))

\* the records {T1, LE, tier 3, score 3.5} and {T1, LE, tier 1, score 1.2},
\* each taken k times, and nothing else
ExampleRecords(k) ==
    LET is(r, tier, score) == /\ r.term = "Term 1" /\ r.domain = "LE"
                              /\ r.classification = tier /\ r.score = score
    IN  /\ Len(observations) = 2 * k
        /\ Len(SelectSeq(observations, LAMBDA r : is(r, "Tier 3", Rat(35, 10)))) = k
        /\ Len(SelectSeq(observations, LAMBDA r : is(r, "Tier 1", Rat(12, 10)))) = k

OverallStats == {i \in 1..Len(df_agg) : df_agg[i].segment_type = None}

\* exactly one Overall stat, with tier_pct = [50, 0, 50], dominant_index =
\* 2.0 and domain_avg = 2.35
OneStatOfExample ==
    /\ Cardinality(OverallStats) = 1
    /\ \A i \in OverallStats :
          /\ df_agg[i].tier_mix_t1_pct = FromInt(50)
          /\ df_agg[i].tier_mix_t2_pct = FromInt(0)
          /\ df_agg[i].tier_mix_t3_pct = FromInt(50)
          /\ df_agg[i].dominant_index = FromInt(2)
          /\ df_agg[i].domain_avg = Rat(235, 100)

----------------------------------------------------------------------------
(* Properties of the movement classifiers                                  *)

Moved == called \cap {"calculate_movements", "_create_movement_analysis"} /= {}

Segmented == segment_col /= None /\ segment_col /= "both"

\* the Segment a row of df is reported under, given the handler that ran
\* and the segmentation choice
SegmentName(r) ==
    IF ~Segmented THEN "Overall"
    ELSE IF segment_col = "fellow_year" /\ "_create_movement_analysis" \in called
         THEN YEAR_LABELS[IndexOf(MV_YEARS, r.fellow_year)]
         ELSE r[segment_col]

\* the (domain, segment_value) keys present in df
MovementKeys == {<<df[i].domain, SegmentName(df[i])>> : i \in 1..Len(df)}

\* the terms present in df for a key
TermsPresent(key) ==
    {df[i].term : i \in {j \in 1..Len(df) :
                            <<df[j].domain, SegmentName(df[j])>> = key}}

TermPos(t) == IndexOf(TERM_ORDER, t)

\* the pairs of terms consecutive among the terms present for a key
ConsecutivePairs(key) ==
    {<<a, b>> \in TermsPresent(key) \X TermsPresent(key) :
        /\ TermPos(a) < TermPos(b)
        /\ \A c \in TermsPresent(key) : ~(TermPos(a) < TermPos(c) /\ TermPos(c) < TermPos(b))}

\* the positions of the records emitted for a key
RecordsFor(key) ==
    {i \in 1..Len(movement_df) :
        <<movement_df[i].Domain, movement_df[i].Segment>> = key}

\* C6: a record is Improvement exactly when its Tier-3 delta is above 2.0,
\* Decline exactly when it is below -2.0, and Stable otherwise; deltas of
\* exactly +2.0 and -2.0 are Stable.
C6_MovementByDelta ==
    \A i \in 1..Len(movement_df) :
        LET delta == movement_df[i].T3_Change
            label == movement_df[i].Movement
        IN  /\ label \in {"Improvement", "Decline", "Stable"}
            /\ (label = "Improvement") <=> (delta.n > 2 * delta.d)
            /\ (label = "Decline") <=> (delta.n < (-2) * delta.d)
            /\ delta \in {FromInt(2), FromInt(-2)} => label = "Stable"

\* records with deltas of exactly +2.0 and -2.0, and one Improvement
C6_Witness ==
    /\ Moved
    /\ \E i \in 1..Len(movement_df) :
          movement_df[i].T3_Change = FromInt(2) /\ movement_df[i].Movement = "Stable"
    /\ \E i \in 1..Len(movement_df) :
          movement_df[i].T3_Change = FromInt(-2) /\ movement_df[i].Movement = "Stable"

C8_AdjacentTerms ==
    \A i \in 1..Len(movement_df) :
        TermPos(movement_df[i].Period[2]) = TermPos(movement_df[i].Period[1]) + 1

\* C8 amended: in every record from_term precedes to_term in the canonical
\* order and no term present for the record's key lies between them; the
\* record spans exactly the terms that are missing for its key between the
\* two.
C8_NextPresentTerm ==
    Moved =>
        \A i \in 1..Len(movement_df) :
            LET from == movement_df[i].Period[1]
                to   == movement_df[i].Period[2]
                key  == <<movement_df[i].Domain, movement_df[i].Segment>>
            IN  /\ TermPos(from) >= 1
                /\ TermPos(from) < TermPos(to)
                /\ \A t \in Range(TERM_ORDER) :
                      (TermPos(from) < TermPos(t) /\ TermPos(t) < TermPos(to))
                          => t \notin TermsPresent(key)

\* a record from Term 1 to Term 3 for a key that has no Term 2
C8_Witness ==
    /\ Moved
    /\ \E i \in 1..Len(movement_df) :
          /\ movement_df[i].Period = <<"Term 1", "Term 3">>
          /\ "Term 2" \notin TermsPresent(<<movement_df[i].Domain, movement_df[i].Segment>>)

----------------------------------------------------------------------------
(* Pattern detectors.  The rule that labels three Tier-3 percentages is    *)
(* written three times: _identify_patterns in                              *)
(* pages/1_Classroom_Observations/sections.py,                             *)
(* _create_pattern_analysis in app.py and _create_pattern_analysis in      *)
(* pages/1_Classroom_Observations/tier_progression.py.  The copies word    *)
(* their labels differently ("U-shape recovery", "Stable performance",     *)
(* "Volatile pattern"); the model names the five labels once.              *)

U_SHAPE == "U-Shape Recovery"
GROWTH == "Consistent Growth"
DECLINE == "Steady Decline"
STABLE == "Stable"
VOLATILE == "Volatile"

PatternLabels == {U_SHAPE, GROWTH, DECLINE, STABLE, VOLATILE}

\* the Tier-3 percentages the pattern tables draw from
PatternValues == {10, 15, 20, 30, 40, 41, 42}

\* one row per term for the first n terms, of one domain and one cohort
PatternRow(i, v) ==
    [term            |-> TERM_ORDER[i],
     domain          |-> DfDomains[1],
     fellow_year     |-> DfCohorts[1][1],
     school_level    |-> DfCohorts[1][2],
     tier_mix_t1_pct |-> FromInt(80 - v),
     tier_mix_t2_pct |-> FromInt(20),
     tier_mix_t3_pct |-> FromInt(v),
     dominant_index  |-> Rat(120 + 2 * v, 100)]

PatternTables ==
    UNION {{[i \in 1..n |-> PatternRow(i, vs[i])] : vs \in [1..n -> PatternValues]} :
           n \in 2..Len(TERM_ORDER)}

\* the Tier-3 percentages of the tables that have several cohorts
CohortPatternValues == {10, 20, 30}

\* a row of the view for the term and cohort of key k
CohortPatternRow(k, v) ==
    [PatternRow(1, v) EXCEPT !.term = StatsRows[k][1].term,
                             !.fellow_year = StatsRows[k][1].fellow_year,
                             !.school_level = StatsRows[k][1].school_level]

\* the rows of the view by key and Tier-3 percentage
CohortPatternRows ==
    [k \in 1..NumDfKeys |-> [v \in CohortPatternValues |-> CohortPatternRow(k, v)]]

\* tables of the view as the pages receive them: at most MaxRows rows in
\* the view's order, a term having a row for each cohort observed in it
CohortPatternTables ==
    UNION {{[j \in 1..Len(ks) |-> CohortPatternRows[ks[j]][vs[j]]] :
               vs \in [1..Len(ks) -> CohortPatternValues]} :
           ks \in UNION {KeyChoices(n, 1) : n \in 1..MaxRows}}

\* mutant: growth judged by the end points, ahead of the other tests
pattern_sections_growth_by_ends(t1, t2, t3) ==
    IF RGt(t3, t1) THEN GROWTH
    ELSE IF RLt(t2, t1) /\ RGt(t3, t2) /\ RGe(t3, t1) THEN U_SHAPE
    ELSE IF RGt(t1, t2) /\ RGt(t2, t3) THEN DECLINE
    ELSE IF RLt(RAbs(RSub(t3, t1)), FromInt(3)) /\ RGt(RAbs(RSub(t2, t1)), FromInt(8))
         THEN VOLATILE
    ELSE None

\* sections.py:399-406: the if/elif chain, which has no Stable branch and
\* no else; None when no branch is taken
pattern_sections(t1, t2, t3) ==
    IF RLt(t2, t1) /\ RGt(t3, t2) /\ RGe(t3, t1) THEN U_SHAPE
    ELSE IF RGt(t3, t2) /\ RGt(t2, t1) THEN GROWTH
    ELSE IF RGt(t1, t2) /\ RGt(t2, t3) THEN DECLINE
    ELSE IF RLt(RAbs(RSub(t3, t1)), FromInt(3)) /\ RGt(RAbs(RSub(t2, t1)), FromInt(8))
         THEN VOLATILE
    ELSE None

\* _sorted_terms(df["term"]) (sections.py:271, 462-467): by the number in
\* the term's name
sorted_terms_by_number(frame) == sorted_terms(frame)

\* sections.py:385-406: called when there are at least three terms; per
\* domain the mean Tier-3 percentage of each of the first three terms
identify_patterns(frame, terms) ==
    LET doms == sorted_unique(frame, "domain", DOMAINS)
        val(t, dom) ==
            RMean(MapSeq(LAMBDA r : r.tier_mix_t3_pct,
                         SelectSeq(frame, LAMBDA r : r.term = t /\ r.domain = dom)))
        vals(dom) == [i \in 1..3 |-> val(terms[i], dom)]
        note(dom) ==
            LET v == vals(dom)
            IN  IF \E i \in 1..3 : IsNaN(v[i]) THEN <<>>
                ELSE IF pattern_sections(v[1], v[2], v[3]) = None THEN <<>>
                ELSE <<[domain |-> dom, pattern |-> pattern_sections(v[1], v[2], v[3]),
                        series |-> v]>>
    IN  IF Len(terms) >= 3 THEN Flatten([i \in 1..Len(doms) |-> note(doms[i])])
        ELSE <<>>

\* mutant: growth and decline judged by the end points only
pattern_app_end_points(a, b, c) ==
    IF RGt(c, a) THEN GROWTH
    ELSE IF RGt(a, c) THEN DECLINE
    ELSE IF RLt(b, a) /\ RGt(c, b) THEN U_SHAPE
    ELSE IF RLt(RAbs(RSub(a, c)), FromInt(5)) THEN STABLE
    ELSE VOLATILE

\* app.py:537-546
pattern_app(a, b, c) ==
    IF RLt(b, a) /\ RGt(c, b) THEN U_SHAPE
    ELSE IF RGt(c, b) /\ RGt(b, a) THEN GROWTH
    ELSE IF RGt(a, b) /\ RGt(b, c) THEN DECLINE
    ELSE IF RLt(RAbs(RSub(a, c)), FromInt(5)) THEN STABLE
    ELSE VOLATILE

\* mutant: two terms are enough, the last term standing in for the third
create_pattern_analysis_two_terms(frame) ==
    LET doms == sorted_unique(frame, "domain", DOMAINS)
        note(dom) ==
            LET d == mean_by_term_app(SelectSeq(frame, LAMBDA r : r.domain = dom))
                last == IF Len(d) >= 3 THEN 3 ELSE Len(d)
            IN  IF Len(d) >= 2
                THEN <<[domain |-> dom,
                        pattern |-> pattern_app(d[1].tier_mix_t3_pct, d[2].tier_mix_t3_pct,
                                                d[last].tier_mix_t3_pct),
                        series |-> <<d[1].tier_mix_t3_pct, d[2].tier_mix_t3_pct,
                                     d[last].tier_mix_t3_pct>>]>>
                ELSE <<>>
    IN  Flatten([i \in 1..Len(doms) |-> note(doms[i])])

\* app.py:526-546: per domain the Tier-3 means by term, the first three
create_pattern_analysis_app(frame) ==
    LET doms == sorted_unique(frame, "domain", DOMAINS)
        note(dom) ==
            LET d == mean_by_term_app(SelectSeq(frame, LAMBDA r : r.domain = dom))
            IN  IF Len(d) >= 3
                THEN <<[domain |-> dom,
                        pattern |-> pattern_app(d[1].tier_mix_t3_pct, d[2].tier_mix_t3_pct,
                                                d[3].tier_mix_t3_pct),
                        series |-> [i \in 1..3 |-> d[i].tier_mix_t3_pct]]>>
                ELSE <<>>
    IN  Flatten([i \in 1..Len(doms) |-> note(doms[i])])

\* mutant: the Stable test ahead of the Growth and Decline tests
pattern_stable_first(t1_t3, t2_t3, t3_t3) ==
    IF RLt(t2_t3, t1_t3) /\ RGt(t3_t3, t2_t3) THEN U_SHAPE
    ELSE IF RLt(RAbs(RSub(t1_t3, t3_t3)), FromInt(5)) THEN STABLE
    ELSE IF RGt(t3_t3, t2_t3) /\ RGt(t2_t3, t1_t3) THEN GROWTH
    ELSE IF RGt(t1_t3, t2_t3) /\ RGt(t2_t3, t3_t3) THEN DECLINE
    ELSE VOLATILE

\* tier_progression.py:587-601
pattern_tier_progression(t1_t3, t2_t3, t3_t3) ==
    IF RLt(t2_t3, t1_t3) /\ RGt(t3_t3, t2_t3) THEN U_SHAPE
    ELSE IF RGt(t3_t3, t2_t3) /\ RGt(t2_t3, t1_t3) THEN GROWTH
    ELSE IF RGt(t1_t3, t2_t3) /\ RGt(t2_t3, t3_t3) THEN DECLINE
    ELSE IF RLt(RAbs(RSub(t1_t3, t3_t3)), FromInt(5)) THEN STABLE
    ELSE VOLATILE

\* tier_progression.py:579-603: per domain the first three rows in term
\* order
create_pattern_analysis(frame) ==
    LET doms == sorted_unique(frame, "domain", DOMAINS)
        note(dom) ==
            LET domain_data == sort_values_term(SelectSeq(frame, LAMBDA r : r.domain = dom))
            IN  IF Len(domain_data) >= 3
                THEN <<[domain |-> dom,
                        pattern |-> pattern_tier_progression(
                                        domain_data[1].tier_mix_t3_pct,
                                        domain_data[2].tier_mix_t3_pct,
                                        domain_data[3].tier_mix_t3_pct),
                        series |-> [i \in 1..3 |-> domain_data[i].tier_mix_t3_pct]]>>
                ELSE <<>>
    IN  Flatten([i \in 1..Len(doms) |-> note(doms[i])])

----------------------------------------------------------------------------
(* Pattern pipeline: each page renders its pattern notes from one table    *)

InitPattern ==
    /\ observations = <<>>
    /\ df_agg = <<>>
    /\ mv = <<>>
    /\ df \in PatternTables \cup CohortPatternTables
    /\ segment_col = None
    /\ movement_df = <<>>
    /\ notes = NoNotes
    /\ called = {}
    /\ insights = NoInsights
    /\ raised = None
    /\ cache = NoCache

\* sections.py:271, 296, 385-386
IdentifyPatterns ==
    /\ "_identify_patterns" \notin called
    /\ notes' = [notes EXCEPT !.sections = identify_patterns(df, sorted_terms_by_number(df))]
    /\ called' = called \cup {"_identify_patterns"}
    /\ UNCHANGED <<observations, df_agg, mv, df, segment_col, movement_df, insights, raised, cache>>

\* app.py:474
CreatePatternAnalysisApp ==
    /\ "app._create_pattern_analysis" \notin called
    /\ notes' = [notes EXCEPT !.app = create_pattern_analysis_app(df)]
    /\ called' = called \cup {"app._create_pattern_analysis"}
    /\ UNCHANGED <<observations, df_agg, mv, df, segment_col, movement_df, insights, raised, cache>>

\* tier_progression.py:149
CreatePatternAnalysis ==
    /\ "tier_progression._create_pattern_analysis" \notin called
    /\ notes' = [notes EXCEPT !.tier_progression = create_pattern_analysis(df)]
    /\ called' = called \cup {"tier_progression._create_pattern_analysis"}
    /\ UNCHANGED <<observations, df_agg, mv, df, segment_col, movement_df, insights, raised, cache>>

NextPattern == IdentifyPatterns \/ CreatePatternAnalysisApp \/ CreatePatternAnalysis

SpecPattern == InitPattern /\ [][NextPattern]_vars

----------------------------------------------------------------------------
(* Narrative of pages/1_Classroom_Observations/sections.py                 *)
(* (_narrate_tier_mix_comprehensive and its helpers) and                   *)
(* _create_strategic_recommendations of app.py                             *)

InsightTerms == <<"Term 1", "Term 2">>
InsightDomains == <<"LE", "SE">>
InsightCohorts == <<DfCohorts[1], DfCohorts[2]>>

\* (tier_mix_t1_pct, tier_mix_t2_pct, tier_mix_t3_pct, dominant_index * 100)
InsightMixes == <<<<40, 20, 40, 200>>, <<45, 25, 30, 185>>, <<30, 15, 55, 225>>>>

NumInsightKeys == Len(InsightTerms) * Len(InsightDomains) * Len(InsightCohorts)

\* the row of key k, in the view's order (term, domain, fellow_year,
\* school_level), with tier mix m
InsightRow(k, m) ==
    LET nc == Len(InsightCohorts)
        nd == Len(InsightDomains)
    IN  [term            |-> InsightTerms[((k - 1) \div (nd * nc)) + 1],
         domain          |-> InsightDomains[(((k - 1) \div nc) % nd) + 1],
         fellow_year     |-> InsightCohorts[((k - 1) % nc) + 1][1],
         school_level    |-> InsightCohorts[((k - 1) % nc) + 1][2],
         tier_mix_t1_pct |-> FromInt(InsightMixes[m][1]),
         tier_mix_t2_pct |-> FromInt(InsightMixes[m][2]),
         tier_mix_t3_pct |-> FromInt(InsightMixes[m][3]),
         dominant_index  |-> Rat(InsightMixes[m][4], 100)]

InsightRows == [k \in 1..NumInsightKeys |-> [m \in 1..Len(InsightMixes) |-> InsightRow(k, m)]]

\* the strictly increasing sequences of n keys, the first at least lo
RECURSIVE InsightKeyChoices(_, _)
InsightKeyChoices(n, lo) ==
    IF n = 0 THEN {<<>>}
    ELSE UNION {{<<k>> \o ks : ks \in InsightKeyChoices(n - 1, k + 1)} :
                k \in lo..NumInsightKeys}

\* tables of at most MaxRows rows in the view's order
OrderedInsightTables ==
    UNION {{[j \in 1..Len(ks) |-> InsightRows[ks[j]][ms[j]]] :
               ms \in [1..Len(ks) -> 1..Len(InsightMixes)]} :
           ks \in UNION {InsightKeyChoices(n, 1) : n \in 1..MaxRows}}

Reverse(rows) == [i \in 1..Len(rows) |-> rows[Len(rows) + 1 - i]]

\* the tables a page can receive: load_tier_analysis_data orders the rows
\* (connection.py:55-58), load_table selects them without an order
\* (database_manager.py:128), which the reversed tables stand for
InsightTables == OrderedInsightTables \cup {Reverse(t) : t \in OrderedInsightTables}

\* df.columns of a table that has rows
Columns(frame) == DOMAIN frame[1]

\* Series.idxmax() / idxmin(): the first position of the extreme value
idxmax(vals) ==
    CHOOSE i \in 1..Len(vals) :
        /\ \A j \in 1..Len(vals) : RLe(vals[j], vals[i])
        /\ \A j \in 1..(i - 1) : RLt(vals[j], vals[i])

idxmin(vals) ==
    CHOOSE i \in 1..Len(vals) :
        /\ \A j \in 1..Len(vals) : RGe(vals[j], vals[i])
        /\ \A j \in 1..(i - 1) : RGt(vals[j], vals[i])

\* frame[frame[col] == v][field].mean()
mean_where(frame, col, v, field) ==
    RMean(MapSeq(LAMBDA r : r[field], SelectSeq(frame, LAMBDA r : r[col] = v)))

SegmentGapThreshold == 10

\* sections.py:330-355: the "Domain-Specific Gaps" lines
analyze_segment_differences(frame, seg_col, terms) ==
    LET latest_df == SelectSeq(frame, LAMBDA r : r.term = terms[Len(terms)])
        segs == sorted_unique(latest_df, seg_col, ColumnOrder(seg_col))
        doms == sorted_unique(latest_df, "domain", DOMAINS)
        \* groupby([segment_col, "domain"]).mean().unstack(level=0).fillna(0)
        cell(dom, sg) ==
            LET m == RMean(MapSeq(LAMBDA r : r.tier_mix_t3_pct,
                                  SelectSeq(latest_df,
                                            LAMBDA r : r.domain = dom /\ r[seg_col] = sg)))
            IN  IF IsNaN(m) THEN FromInt(0) ELSE m
        row(dom) == [j \in 1..Len(segs) |-> cell(dom, segs[j])]
        line(dom) ==
            LET hi  == row(dom)[idxmax(row(dom))]
                lo  == row(dom)[idxmin(row(dom))]
                gap == RSub(hi, lo)
            IN  IF RGt(gap, FromInt(SegmentGapThreshold))
                THEN <<[domain |-> dom, leader |-> segs[idxmax(row(dom))], gap |-> gap,
                        max |-> hi, min |-> lo]>>
                ELSE <<>>
    IN  IF latest_df = <<>> \/ seg_col \notin Columns(latest_df) THEN <<>>
        ELSE IF Len(segs) < 2 THEN <<>>
        ELSE Flatten([i \in 1..Len(doms) |-> line(doms[i])])

\* sections.py:358-383: the domains improving, stable and declining between
\* the first and the last term
analyze_progression_patterns(frame, terms) ==
    LET doms == sorted_unique(frame, "domain", DOMAINS)
        first(dom) == RMean(MapSeq(LAMBDA r : r.tier_mix_t3_pct,
                          SelectSeq(frame, LAMBDA r : r.term = terms[1] /\ r.domain = dom)))
        last(dom) == RMean(MapSeq(LAMBDA r : r.tier_mix_t3_pct,
                          SelectSeq(frame,
                                    LAMBDA r : r.term = terms[Len(terms)] /\ r.domain = dom)))
        has(dom) == ~IsNaN(first(dom)) /\ ~IsNaN(last(dom))
        diff(dom) == RSub(last(dom), first(dom))
    IN  IF Len(terms) < 2 THEN <<>>
        ELSE <<[improving |-> {d \in Range(doms) : has(d) /\ RGt(diff(d), FromInt(5))},
                stable    |-> {d \in Range(doms) :
                                  has(d) /\ RGe(diff(d), FromInt(-5)) /\ RLe(diff(d), FromInt(5))},
                declining |-> {d \in Range(doms) : has(d) /\ RLt(diff(d), FromInt(-5))}]>>

\* mutant: a gap of exactly the threshold is reported too
add_segment_recommendations_inclusive(frame, seg_col, latest_term) ==
    LET latest_df == SelectSeq(frame, LAMBDA r : r.term = latest_term)
        segs == sorted_unique(latest_df, seg_col, ColumnOrder(seg_col))
        perf == [j \in 1..Len(segs) |-> mean_where(latest_df, seg_col, segs[j], "tier_mix_t3_pct")]
        gap == RSub(perf[idxmax(perf)], perf[idxmin(perf)])
    IN  IF Len(segs) >= 2 /\ RGe(gap, FromInt(SegmentGapThreshold))
        THEN <<[kind |-> "Segment Gap", leading |-> segs[idxmax(perf)],
                lagging |-> segs[idxmin(perf)], gap |-> gap]>>
        ELSE <<>>

\* sections.py:450-456
add_segment_recommendations(frame, seg_col, latest_term) ==
    LET latest_df == SelectSeq(frame, LAMBDA r : r.term = latest_term)
        segs == sorted_unique(latest_df, seg_col, ColumnOrder(seg_col))
        perf == [j \in 1..Len(segs) |-> mean_where(latest_df, seg_col, segs[j], "tier_mix_t3_pct")]
        gap == RSub(perf[idxmax(perf)], perf[idxmin(perf)])
    IN  IF Len(segs) >= 2 /\ RGt(gap, FromInt(SegmentGapThreshold))
        THEN <<[kind |-> "Segment Gap", leading |-> segs[idxmax(perf)],
                lagging |-> segs[idxmin(perf)], gap |-> gap]>>
        ELSE <<>>

HighTier1Threshold == 40
LowIndexThreshold == 2

\* domain_summary["t3"].idxmax() (sections.py:427)
top_domain(t3s) == idxmax(t3s)

\* mutant: the domains at or above the threshold
high_t1_inclusive(doms, t1s) ==
    SelectSeq(doms, LAMBDA d : RGe(t1s[IndexOf(doms, d)], FromInt(HighTier1Threshold)))

\* domain_summary[domain_summary["t1"] > 40].index.tolist() (sections.py:433)
high_t1(doms, t1s) ==
    SelectSeq(doms, LAMBDA d : RGt(t1s[IndexOf(doms, d)], FromInt(HighTier1Threshold)))

\* mutant: a domain at exactly the threshold is listed
low_idx_inclusive(doms, idxs) ==
    SelectSeq(doms, LAMBDA d : RLe(idxs[IndexOf(doms, d)], FromInt(LowIndexThreshold)))

\* domain_summary[domain_summary["idx"] < 2.0].index.tolist() (sections.py:438)
low_idx(doms, idxs) ==
    SelectSeq(doms, LAMBDA d : RLt(idxs[IndexOf(doms, d)], FromInt(LowIndexThreshold)))

\* mutant: the call-outs for the worst domain and the best domain swapped
recs_worst_first(top, bot) == <<bot, top>>

\* sections.py:429-430: Replicate Success is appended before Targeted Support
recs_best_worst(top, bot) == <<top, bot>>

\* sections.py:410-447
provide_strategic_recommendations(frame, terms, seg_col) ==
    LET latest_term == terms[Len(terms)]
        latest_df == SelectSeq(frame, LAMBDA r : r.term = latest_term)
        doms == sorted_unique(latest_df, "domain", DOMAINS)
        t1s == [i \in 1..Len(doms) |-> mean_where(latest_df, "domain", doms[i], "tier_mix_t1_pct")]
        t3s == [i \in 1..Len(doms) |-> mean_where(latest_df, "domain", doms[i], "tier_mix_t3_pct")]
        idxs == [i \in 1..Len(doms) |-> mean_where(latest_df, "domain", doms[i], "dominant_index")]
        top == top_domain(t3s)
        bot == idxmin(t3s)
    IN  IF latest_df = <<>> THEN <<>>
        ELSE recs_best_worst([kind |-> "Replicate Success", domain |-> doms[top], t3 |-> t3s[top]],
                             [kind |-> "Targeted Support", domain |-> doms[bot], t3 |-> t3s[bot]])
             \o (IF high_t1(doms, t1s) /= <<>>
                 THEN <<[kind |-> "Foundational Focus", domains |-> high_t1(doms, t1s)]>>
                 ELSE <<>>)
             \o (IF low_idx(doms, idxs) /= <<>>
                 THEN <<[kind |-> "Progression Acceleration", domains |-> low_idx(doms, idxs)]>>
                 ELSE <<>>)
             \o (IF seg_col /= None /\ seg_col \in Columns(frame)
                 THEN add_segment_recommendations(frame, seg_col, latest_term)
                 ELSE <<>>)

\* sections.py:267-297: what the narrative writes for a table and a
\* segmentation choice
narrate_tier_mix_comprehensive(frame, seg_col) ==
    LET terms == sorted_terms_by_number(frame)
        latest_df == SelectSeq(frame, LAMBDA r : r.term = terms[Len(terms)])
        doms == sorted_unique(latest_df, "domain", DOMAINS)
        g == [i \in 1..Len(doms) |-> mean_where(latest_df, "domain", doms[i], "tier_mix_t3_pct")]
    IN  IF frame = <<>> \/ {"term", "domain"} \ Columns(frame) /= {} THEN NoInsights
        ELSE [cards |-> <<[top_domain |-> doms[idxmax(g)], bottom_domain |-> doms[idxmin(g)],
                           avg_t3 |-> RMean(MapSeq(LAMBDA r : r.tier_mix_t3_pct, latest_df))]>>,
              gaps |-> IF seg_col /= None /\ seg_col /= "both" /\ seg_col \in Columns(frame)
                       THEN analyze_segment_differences(frame, seg_col, terms)
                       ELSE <<>>,
              progression |-> analyze_progression_patterns(frame, terms),
              recs |-> provide_strategic_recommendations(frame, terms, seg_col),
              app |-> <<>>]

\* app.py:552-565: the rows of the latest term with the highest and the
\* lowest Tier-3 percentage
create_strategic_recommendations(frame) ==
    LET terms == sorted_terms(frame)
        cur == SelectSeq(frame, LAMBDA r : r.term = terms[Len(terms)])
        t3s == MapSeq(LAMBDA r : r.tier_mix_t3_pct, cur)
    IN  IF cur = <<>> THEN <<>>
        ELSE <<[kind |-> "Replicate Success", domain |-> cur[idxmax(t3s)].domain,
                t3 |-> t3s[idxmax(t3s)]],
               [kind |-> "Focus Area", domain |-> cur[idxmin(t3s)].domain,
                t3 |-> t3s[idxmin(t3s)]]>>

----------------------------------------------------------------------------
(* Narrative pipeline: the pages write their insights for one table        *)

InitInsights ==
    /\ observations = <<>>
    /\ df_agg = <<>>
    /\ mv = <<>>
    /\ df \in InsightTables
    /\ segment_col = None
    /\ movement_df = <<>>
    /\ notes = NoNotes
    /\ called = {}
    /\ insights = NoInsights
    /\ raised = None
    /\ cache = NoCache

\* sections.py:167: _narrate_tier_mix_comprehensive(df, segment_col), which
\* also runs the pattern detector of sections.py (lines 296, 385-386)
NarrateTierMix ==
    \E seg \in SegmentChoices :
        /\ "_narrate_tier_mix_comprehensive" \notin called
        /\ segment_col' = seg
        /\ insights' = [narrate_tier_mix_comprehensive(df, seg) EXCEPT !.app = insights.app]
        /\ notes' = [notes EXCEPT !.sections =
                        identify_patterns(df, sorted_terms_by_number(df))]
        /\ called' = called \cup {"_narrate_tier_mix_comprehensive"}
        /\ UNCHANGED <<observations, df_agg, mv, df, movement_df, raised, cache>>

\* app.py:60, 477: self._create_strategic_recommendations(df) on the
\* prepared table
CreateStrategicRecommendations ==
    /\ "_create_strategic_recommendations" \notin called
    /\ insights' = [insights EXCEPT !.app = create_strategic_recommendations(prepare(df))]
    /\ df' = caller_frame(df)
    /\ called' = called \cup {"_create_strategic_recommendations"}
    /\ UNCHANGED <<observations, df_agg, mv, segment_col, movement_df, notes, raised, cache>>

NextInsights == NarrateTierMix \/ CreateStrategicRecommendations

SpecInsights == InitInsights /\ [][NextInsights]_vars

----------------------------------------------------------------------------
(* Segmentation by a column the table does not have                        *)

\* rows of the tables without a school_level column
MaxKeyRows == 2

\* the row without the column col
drop(row, col) == [c \in (DOMAIN row) \ {col} |-> row[c]]

\* tables of at most MaxKeyRows rows in which no row has school_level
NoSchoolLevelTables ==
    {[j \in 1..Len(t) |-> drop(t[j], "school_level")] :
        t \in {u \in OrderedInsightTables : Len(u) <= MaxKeyRows}}

InitSegmentKey ==
    /\ observations = <<>>
    /\ df_agg = <<>>
    /\ mv = <<>>
    /\ df \in NoSchoolLevelTables
    /\ segment_col = None
    /\ movement_df = <<>>
    /\ notes = NoNotes
    /\ called = {}
    /\ insights = NoInsights
    /\ raised = None
    /\ cache = NoCache

\* tier_mix_tables.py:185 and sections.py:167 on the same table
NextSegmentKey == CalculateMovements \/ NarrateTierMix

SpecSegmentKey == InitSegmentKey /\ [][NextSegmentKey]_vars

----------------------------------------------------------------------------
(* Trend pipeline: the movement classifiers and the pattern detector of    *)
(* app.py on one table that has one row per term                           *)

InitTrend ==
    /\ observations = <<>>
    /\ df_agg = <<>>
    /\ mv = <<>>
    /\ df \in PatternTables
    /\ segment_col = None
    /\ movement_df = <<>>
    /\ notes = NoNotes
    /\ called = {}
    /\ insights = NoInsights
    /\ raised = None
    /\ cache = NoCache

\* app.py:129-135 and tier_mix_tables.py:185: the page shows the movement
\* table and the pattern notes of the same table
NextTrend == CalculateMovements \/ CreateMovementAnalysis \/ CreatePatternAnalysisApp

SpecTrend == InitTrend /\ [][NextTrend]_vars

----------------------------------------------------------------------------
(* Lifecycle of the derived tables: st.cache_data around                   *)
(* load_and_process_data (Enhance.py:21) and load_tier_analysis_data       *)
(* (connection.py:31), and the materialized view with its refresh          *)
(* (connection.py:79-103)                                                  *)

\* ttl=3600 of both decorators, and the step of the model's clock
CacheTtl == 3600
ClockTick == 1800

\* the stored observations of the lifecycle: a bucket of three records of
\* one tier
LifecycleTables == {[j \in 1..MinGroupSize |-> ObsKinds[k]] : k \in 1..Len(TIERS)}

\* st.cache_data answers from an entry younger than its ttl
Live(entry) == entry.present /\ entry.age < CacheTtl

\* Enhance.py:21-22, 109: the value a call returns now
cached_load_and_process_data ==
    IF Live(cache.load_and_process_data)
    THEN cache.load_and_process_data.value
    ELSE load_and_process_data(observations)

\* connection.py:31-77: the rows of the view in its order, or None (here
\* the empty table) when the view has no rows
load_tier_analysis_data == mv

\* the value a call of the cached load_tier_analysis_data returns now
cached_load_tier_analysis_data ==
    IF Live(cache.load_tier_analysis_data)
    THEN cache.load_tier_analysis_data.value
    ELSE load_tier_analysis_data

\* mutant: the refresh leaves the cached copy of the view in place
cache_after_refresh_kept(c) == c

\* connection.py:98: load_tier_analysis_data.clear()
cache_after_refresh(c) ==
    [c EXCEPT !.load_tier_analysis_data = NoCache.load_tier_analysis_data]

InitLifecycle ==
    /\ observations \in LifecycleTables
    /\ df_agg = <<>>
    /\ mv = create_materialized_view(observations)
    /\ df = <<>>
    /\ segment_col = None
    /\ movement_df = <<>>
    /\ notes = NoNotes
    /\ called = {}
    /\ insights = NoInsights
    /\ raised = None
    /\ cache = NoCache

\* the stored observations change; called keeps the functions whose body
\* has run since then
StoreObservations ==
    \E t \in LifecycleTables \ {observations} :
        /\ observations' = t
        /\ called' = {}
        /\ UNCHANGED <<df_agg, mv, df, segment_col, movement_df, notes, insights, raised, cache>>

\* time passes
Tick ==
    /\ Live(cache.load_and_process_data) \/ Live(cache.load_tier_analysis_data)
    /\ cache' = [f \in DOMAIN cache |->
                    IF Live(cache[f]) THEN [cache[f] EXCEPT !.age = @ + ClockTick]
                    ELSE cache[f]]
    /\ UNCHANGED <<observations, df_agg, mv, df, segment_col, movement_df, notes, called,
                   insights, raised>>

\* Enhance.py:109: a request of the page; the body of load_and_process_data
\* runs only when the cache has no live entry, and called records a second
\* run on the same observations
RequestEnhance ==
    IF Live(cache.load_and_process_data)
    THEN /\ df_agg' = cached_load_and_process_data.df_agg
         /\ UNCHANGED <<observations, mv, df, segment_col, movement_df, notes, called,
                        insights, raised, cache>>
    ELSE LET value == [df     |-> load_and_process_data(observations).df,
                       df_agg |-> agg_list(df_agg)
                                     \o load_and_process_data(observations).df_agg]
         IN  /\ df_agg' = value.df_agg
             /\ cache' = [cache EXCEPT !.load_and_process_data =
                             [present |-> TRUE, value |-> value, age |-> 0]]
             /\ called' = called \cup {IF "load_and_process_data" \in called
                                       THEN "load_and_process_data again"
                                       ELSE "load_and_process_data"}
             /\ UNCHANGED <<observations, mv, df, segment_col, movement_df, notes,
                            insights, raised>>

\* connection.py:318: df = load_tier_analysis_data() in a request of the
\* tier page
RequestTierAnalysis ==
    /\ df' = cached_load_tier_analysis_data
    /\ IF Live(cache.load_tier_analysis_data)
       THEN UNCHANGED <<cache, called>>
       ELSE /\ cache' = [cache EXCEPT !.load_tier_analysis_data =
                            [present |-> TRUE, value |-> load_tier_analysis_data, age |-> 0]]
            /\ called' = called \cup {"load_tier_analysis_data"}
    /\ UNCHANGED <<observations, df_agg, mv, segment_col, movement_df, notes, insights, raised>>

\* connection.py:79-103: REFRESH MATERIALIZED VIEW, then the cached copy
\* is cleared
RefreshMaterializedView ==
    /\ mv' = create_materialized_view(observations)
    /\ cache' = cache_after_refresh(cache)
    /\ called' = called \cup {"refresh_materialized_view"}
    /\ UNCHANGED <<observations, df_agg, df, segment_col, movement_df, notes, insights, raised>>

NextLifecycle ==
    \/ StoreObservations
    \/ Tick
    \/ RequestEnhance
    \/ RequestTierAnalysis
    \/ RefreshMaterializedView

SpecLifecycle == InitLifecycle /\ [][NextLifecycle]_vars

----------------------------------------------------------------------------
(* Properties of the pattern detectors                                     *)

\* the three Tier-3 percentages a detector reads from df
Triple == [i \in 1..3 |-> df[i].tier_mix_t3_pct]

\* df has one row per term for its first terms, three or more
ThreeTerms == Len(df) >= 3 /\ \A i \in 1..Len(df) : df[i].term = TERM_ORDER[i]

TripleIs(a, b, c) == ThreeTerms /\ Triple = <<FromInt(a), FromInt(b), FromInt(c)>>

\* the copies that have rendered their notes
Copies ==
    {c \in {"sections", "app", "tier_progression"} :
        CASE c = "sections" -> "_identify_patterns" \in called
          [] c = "app" -> "app._create_pattern_analysis" \in called
          [] c = "tier_progression" -> "tier_progression._create_pattern_analysis" \in called}

\* the labels a copy has given the domain of df
LabelsOf(c) == {notes[c][i].pattern : i \in 1..Len(notes[c])}

\* the rule in its stated priority order
StatedPattern(a, b, c) ==
    IF RLt(b, a) /\ RGt(c, b) /\ RGe(c, a) THEN U_SHAPE
    ELSE IF RGt(c, b) /\ RGt(b, a) THEN GROWTH
    ELSE IF RGt(a, b) /\ RGt(b, c) THEN DECLINE
    ELSE IF RLt(RAbs(RSub(a, c)), FromInt(5)) THEN STABLE
    ELSE VOLATILE

\* C9: every triple (a, b, c) is labelled by the first matching rule of
\* (1) b < a and c > b and c >= a: U-Shape Recovery, (2) c > b > a:
\* Consistent Growth, (3) a > b > c: Steady Decline, (4) abs(a - c) < 5:
\* Stable, (5) otherwise Volatile.
C9_FirstMatchingRule ==
    ThreeTerms =>
        \A c \in Copies :
            /\ Len(notes[c]) = 1
            /\ notes[c][1].pattern = StatedPattern(Triple[1], Triple[2], Triple[3])

DomainsOfDf == {df[i].domain : i \in 1..Len(df)}

TermsOfDomain(dom) ==
    SelectSeq(TERM_ORDER,
              LAMBDA t : \E i \in 1..Len(df) : df[i].domain = dom /\ df[i].term = t)

\* the Tier-3 percentage of a domain in a term: the mean over the term's rows
Tier3Of(dom, t) ==
    RMean(MapSeq(LAMBDA r : r.tier_mix_t3_pct,
                 SelectSeq(df, LAMBDA r : r.domain = dom /\ r.term = t)))

\* C11: the three values a detector classifies for a domain are the Tier-3
\* percentages of the domain's first three distinct terms in canonical
\* order, one value per term, whatever later terms hold.
C11_FirstThreeDistinctTerms ==
    \A c \in Copies :
        \A i \in 1..Len(notes[c]) :
            LET dom == notes[c][i].domain
                terms == TermsOfDomain(dom)
            IN  /\ Len(terms) >= 3
                /\ notes[c][i].series = [k \in 1..3 |-> Tier3Of(dom, terms[k])]

----------------------------------------------------------------------------
(* Properties of the narrative: segment gaps and recommendations           *)

Narrated == "_narrate_tier_mix_comprehensive" \in called

Recommended == "_create_strategic_recommendations" \in called

\* the latest term of df and its rows
LatestTerm == TERM_ORDER[CHOOSE i \in 1..Len(TERM_ORDER) :
                            /\ \E j \in 1..Len(df) : df[j].term = TERM_ORDER[i]
                            /\ \A j \in 1..Len(df) : TermPos(df[j].term) <= i]

LatestRows ==
    LET latest == LatestTerm
    IN  SelectSeq(df, LAMBDA r : r.term = latest)

LatestDomains ==
    LET rows == LatestRows
    IN  {rows[i].domain : i \in 1..Len(rows)}

\* the segment values that have a stat for a domain at the latest term
SegmentsOf(dom) ==
    {LatestRows[i][segment_col] : i \in {j \in 1..Len(LatestRows) : LatestRows[j].domain = dom}}

\* the Tier-3 percentage of a domain's segment value at the latest term
SegmentTier3(dom, sg) ==
    RMean(MapSeq(LAMBDA r : r.tier_mix_t3_pct,
                 SelectSeq(LatestRows, LAMBDA r : r.domain = dom /\ r[segment_col] = sg)))

MaxOf(S) == CHOOSE x \in S : \A y \in S : RLe(y, x)
MinOf(S) == CHOOSE x \in S : \A y \in S : RGe(y, x)

\* max - min of a domain's Tier-3 percentages over its own segment values
SpreadOf(dom) ==
    LET vals == {SegmentTier3(dom, sg) : sg \in SegmentsOf(dom)}
    IN  RSub(MaxOf(vals), MinOf(vals))

GapLinesOf(dom) == {i \in 1..Len(insights.gaps) : insights.gaps[i].domain = dom}

\* C13: for each domain at the latest term the gap is max - min of Tier-3
\* over the segment values present for that domain, and a gap line is
\* written if and only if the gap exceeds 10.0.
C13_GapOverPresentSegments ==
    (Narrated /\ Segmented) =>
        \A dom \in LatestDomains :
            /\ GapLinesOf(dom) /= {} <=> RGt(SpreadOf(dom), FromInt(10))
            /\ \A i \in GapLinesOf(dom) : insights.gaps[i].gap = SpreadOf(dom)

\* C14: a domain with a stat for only one segment value at the latest term
\* gets no gap line, also when other domains have two segment values.
C14_SingleSegmentDomainSkipped ==
    (Narrated /\ Segmented) =>
        \A dom \in LatestDomains :
            Cardinality(SegmentsOf(dom)) = 1 => GapLinesOf(dom) = {}

RecKinds == [i \in 1..Len(insights.recs) |-> insights.recs[i].kind]

\* the place of a kind of statement in the fixed order
KindRank(kind) ==
    CASE kind = "Replicate Success" -> 1
      [] kind = "Targeted Support" -> 2
      [] kind = "Foundational Focus" -> 3
      [] kind = "Progression Acceleration" -> 4
      [] kind = "Segment Gap" -> 5

\* C15: the recommendations come in a fixed order: the best-domain
\* call-out first, the worst-domain call-out second, then High-Tier-1,
\* then Low-index, then the segment gap; the first two are present
\* whenever the latest term has a stat.
C15_FixedOrder ==
    Narrated =>
        /\ Len(LatestRows) >= 1
        /\ Len(RecKinds) >= 2
        /\ RecKinds[1] = "Replicate Success"
        /\ RecKinds[2] = "Targeted Support"
        /\ \A i, j \in 1..Len(RecKinds) : i < j => KindRank(RecKinds[i]) < KindRank(RecKinds[j])

\* a list with all five kinds of statement
C15_Witness ==
    /\ Narrated
    /\ RecKinds = <<"Replicate Success", "Targeted Support", "Foundational Focus",
                    "Progression Acceleration", "Segment Gap">>

\* the Tier-3 percentage of a domain at the latest term (the mean of its rows)
DomainTier3(dom) ==
    RMean(MapSeq(LAMBDA r : r.tier_mix_t3_pct,
                 SelectSeq(LatestRows, LAMBDA r : r.domain = dom)))

\* the first row of df that belongs to a domain at the latest term
FirstRowOf(dom) == CHOOSE i \in 1..Len(LatestRows) :
                      /\ LatestRows[i].domain = dom
                      /\ \A j \in 1..(i - 1) : LatestRows[j].domain /= dom

\* dom has the greatest (sign = 1) or the least (sign = -1) value of its
\* kind, and every other domain with that value comes later in the input
FirstExtremeDomain(dom, sign) ==
    /\ dom \in LatestDomains
    /\ \A other \in LatestDomains :
          /\ RLe(RMulInt(sign, DomainTier3(other)), RMulInt(sign, DomainTier3(dom)))
          /\ (DomainTier3(other) = DomainTier3(dom) /\ other /= dom)
                => FirstRowOf(dom) < FirstRowOf(other)

\* row i has the greatest (sign = 1) or the least (sign = -1) Tier-3
\* percentage of the latest term, and no earlier row has it
FirstExtremeRow(i, sign) ==
    /\ \A j \in 1..Len(LatestRows) :
          RLe(RMulInt(sign, LatestRows[j].tier_mix_t3_pct),
              RMulInt(sign, LatestRows[i].tier_mix_t3_pct))
    /\ \A j \in 1..(i - 1) :
          LatestRows[j].tier_mix_t3_pct /= LatestRows[i].tier_mix_t3_pct

\* C16: the best-domain call-out names a domain with the maximum Tier-3
\* percentage at the latest term and the worst-domain call-out one with
\* the minimum (sections.py over the domains' percentages, app.py over the
\* rows); of several domains sharing the extreme, the one that comes first
\* in the input is named.
C16_FirstExtremeNamed ==
    /\ Narrated =>
          /\ FirstExtremeDomain(insights.recs[1].domain, 1)
          /\ insights.recs[1].t3 = DomainTier3(insights.recs[1].domain)
          /\ FirstExtremeDomain(insights.recs[2].domain, -1)
          /\ insights.recs[2].t3 = DomainTier3(insights.recs[2].domain)
    /\ Recommended =>
          /\ \E i \in 1..Len(LatestRows) :
                /\ FirstExtremeRow(i, 1)
                /\ insights.app[1].domain = LatestRows[i].domain
                /\ insights.app[1].t3 = LatestRows[i].tier_mix_t3_pct
          /\ \E i \in 1..Len(LatestRows) :
                /\ FirstExtremeRow(i, -1)
                /\ insights.app[2].domain = LatestRows[i].domain
                /\ insights.app[2].t3 = LatestRows[i].tier_mix_t3_pct

DomainMean(dom, field) ==
    RMean(MapSeq(LAMBDA r : r[field], SelectSeq(LatestRows, LAMBDA r : r.domain = dom)))

\* the domains a statement of a kind lists (none when there is no statement)
ListedBy(kind) ==
    UNION {Range(insights.recs[i].domains) :
              i \in {j \in 1..Len(insights.recs) : insights.recs[j].kind = kind}}

\* C17: the High-Tier-1 call-out lists exactly the domains whose
\* latest-term Tier-1 percentage is above 40.0 and the Low-index call-out
\* exactly those whose dominant index is below 2.0; a domain at exactly
\* 40.0, or exactly 2.0, is not listed.
C17_StrictThresholds ==
    Narrated =>
        /\ ListedBy("Foundational Focus") =
              {d \in LatestDomains : RGt(DomainMean(d, "tier_mix_t1_pct"), FromInt(40))}
        /\ ListedBy("Progression Acceleration") =
              {d \in LatestDomains : RLt(DomainMean(d, "dominant_index"), FromInt(2))}
        /\ \A d \in LatestDomains :
              /\ DomainMean(d, "tier_mix_t1_pct") = FromInt(40)
                    => d \notin ListedBy("Foundational Focus")
              /\ DomainMean(d, "dominant_index") = FromInt(2)
                    => d \notin ListedBy("Progression Acceleration")

\* one domain at exactly 40.0 and 2.0 left out of both call-outs, another
\* domain listed in both
C17_Witness ==
    /\ Narrated
    /\ \E d \in LatestDomains :
          /\ DomainMean(d, "tier_mix_t1_pct") = FromInt(40)
          /\ DomainMean(d, "dominant_index") = FromInt(2)
          /\ d \notin ListedBy("Foundational Focus") \cup ListedBy("Progression Acceleration")
    /\ ListedBy("Foundational Focus") /= {}
    /\ ListedBy("Progression Acceleration") /= {}

\* the segment-gap statements among the recommendations
SegmentGapRecs == SelectSeq(insights.recs, LAMBDA r : r.kind = "Segment Gap")

\* C18 as stated: one segment-gap statement for each gap line of the
\* segment comparison, naming that gap's leading segment and size.
C18_OneStatementPerSegmentGap ==
    Narrated =>
        /\ Len(SegmentGapRecs) = Len(insights.gaps)
        /\ \A i \in 1..Len(insights.gaps) :
              \E j \in 1..Len(SegmentGapRecs) :
                  /\ SegmentGapRecs[j].leading = insights.gaps[i].leader
                  /\ SegmentGapRecs[j].gap = insights.gaps[i].gap

\* the segment values of the latest term and a segment value's Tier-3
\* percentage: the mean over its latest-term rows of every domain
LatestSegments == {LatestRows[i][segment_col] : i \in 1..Len(LatestRows)}

OverallTier3(sg) ==
    RMean(MapSeq(LAMBDA r : r.tier_mix_t3_pct,
                 SelectSeq(LatestRows, LAMBDA r : r[segment_col] = sg)))

OverallSpread ==
    LET vals == {OverallTier3(sg) : sg \in LatestSegments}
    IN  RSub(MaxOf(vals), MinOf(vals))

\* C18 amended: the recommendations hold at most one segment-gap
\* statement, whatever the number of per-domain gap lines.  It is there if
\* and only if a segment column was requested, the latest term has two or
\* more segment values and the highest and the lowest of their Tier-3
\* means over all latest-term rows differ by more than 10; it names the
\* segment with the highest mean, the one with the lowest and the
\* difference.
C18_OneOverallSegmentGap ==
    Narrated =>
        /\ Len(SegmentGapRecs) <= 1
        /\ Len(SegmentGapRecs) = 1 <=>
              /\ Segmented
              /\ Cardinality(LatestSegments) >= 2
              /\ RGt(OverallSpread, FromInt(10))
        /\ \A j \in 1..Len(SegmentGapRecs) :
              /\ SegmentGapRecs[j].gap = OverallSpread
              /\ OverallTier3(SegmentGapRecs[j].leading) =
                    MaxOf({OverallTier3(sg) : sg \in LatestSegments})
              /\ OverallTier3(SegmentGapRecs[j].lagging) =
                    MinOf({OverallTier3(sg) : sg \in LatestSegments})

\* two per-domain gap lines and the one segment-gap statement
C18_Witness ==
    /\ Narrated
    /\ Len(insights.gaps) = 2
    /\ Len(SegmentGapRecs) = 1
    /\ SegmentGapRecs[1].leading /= SegmentGapRecs[1].lagging

----------------------------------------------------------------------------
(* Properties of the lifecycle                                             *)

----------------------------------------------------------------------------
(* Properties of segmentation by an absent column                          *)

\* the segmentation requested is by a column no row of df has
SegmentKeyAbsent ==
    /\ segment_col \notin {None, "both"}
    /\ \A i \in 1..Len(df) : segment_col \notin DOMAIN df[i]

\* C20 as stated: when the requested segmentation attribute exists on no
\* input record, InvalidSegmentKey is reported and no statistics are
\* produced; the engine never continues as if unsegmented.
C20_InvalidSegmentKeyReported ==
    (called /= {} /\ SegmentKeyAbsent) =>
        /\ raised = "InvalidSegmentKey"
        /\ movement_df = <<>>
        /\ insights = NoInsights

----------------------------------------------------------------------------
(* Further properties of the aggregator                                    *)

\* C21: load_and_process_data on an empty record collection returns an
\* empty table of stats and raises nothing.
C21_EmptyInEmptyOut ==
    (Loaded /\ observations = <<>>) => (df_agg = <<>> /\ raised = None)

C21_Witness == Loaded /\ observations = <<>>

Reclassified(obs, i, tier) == [obs EXCEPT ![i].classification = tier]

\* the dominant index load_and_process_data gives the Overall bucket of
\* the observations (all of one term and domain)
OverallIndexOf(obs) ==
    LET total == Len(obs)
    IN  DominantIndex(TierPct(TierCount(obs, "Tier 1"), total),
                      TierPct(TierCount(obs, "Tier 2"), total),
                      TierPct(TierCount(obs, "Tier 3"), total))

OverallRows == SelectSeq(df_agg, LAMBDA r : r.segment_type = None)

\* C25: among buckets of one size, moving a record from a lower tier into
\* Tier 3 strictly increases dominant_index, moving a record from a higher
\* tier into Tier 1 strictly decreases it, and the index is 2.0 when the
\* three tiers hold equal shares.
C25_IndexMonotone ==
    (Loaded /\ OverallRows /= <<>>) =>
        LET index == OverallRows[1].dominant_index
        IN  /\ index = OverallIndexOf(observations)
            /\ \A i \in 1..Len(observations) :
                  /\ observations[i].classification /= "Tier 3" =>
                        RGt(OverallIndexOf(Reclassified(observations, i, "Tier 3")), index)
                  /\ observations[i].classification /= "Tier 1" =>
                        RLt(OverallIndexOf(Reclassified(observations, i, "Tier 1")), index)
            /\ (\A t \in Range(TIERS) :
                    TierCount(observations, t) = TierCount(observations, "Tier 1"))
                  => index = FromInt(2)

\* a bucket of equal shares, where either move is possible
C25_Witness ==
    /\ Loaded /\ OverallRows /= <<>>
    /\ \A t \in Range(TIERS) : TierCount(observations, t) = 1

RECURSIVE SumCounts(_)
SumCounts(rows) ==
    IF rows = <<>> THEN 0 ELSE Head(rows).observation_count + SumCounts(Tail(rows))

\* the stats of df_agg of a scheme (None for Overall) for a term and domain
SchemeStats(scheme, term, domain) ==
    SelectSeq(df_agg, LAMBDA r : r.segment_type = scheme /\ r.term = term /\ r.domain = domain)

\* C29: in df_agg, whenever a stat segmented by school_level or by
\* fellowship_year exists for a (term, domain), the Overall stat of that
\* (term, domain) exists too, and its observation_count is at least the sum
\* of the observation_counts of the stats of that scheme for the same
\* (term, domain).
C29_OverallCoversSegments ==
    \A i \in 1..Len(df_agg) :
        LET row == df_agg[i]
            overall == SchemeStats(None, row.term, row.domain)
        IN  row.segment_type /= None =>
              /\ Len(overall) = 1
              /\ overall[1].observation_count >=
                    SumCounts(SchemeStats(row.segment_type, row.term, row.domain))

\* stats of both schemes, the Overall count above the sum of the
\* fellowship-year stats because a record has no fellowship year
C29_Witness ==
    /\ Loaded
    /\ \E i, j \in 1..Len(df_agg) :
          /\ df_agg[i].segment_type = "school_level"
          /\ df_agg[j].segment_type = "fellowship_year"
          /\ SchemeStats(None, df_agg[j].term, df_agg[j].domain)[1].observation_count >
                SumCounts(SchemeStats("fellowship_year", df_agg[j].term, df_agg[j].domain))

----------------------------------------------------------------------------
(* Further properties of the movement classifiers                          *)

\* the rows of a table in the order p
Permuted(rows, p) == [i \in 1..Len(rows) |-> rows[p[i]]]

\* C22: calculate_movements is determined by the set of the input rows:
\* every permutation of the rows of df gives the same MovementRecords in
\* the same order.
C22_RowOrderIrrelevant ==
    (called = {"calculate_movements"} /\ raised = None) =>
        \A p \in Permutations(1..Len(df)) :
            calculate_movements(Permuted(df, p), segment_col) = movement_df

RowsOf(dom, t) == SelectSeq(df, LAMBDA r : r.domain = dom /\ r.term = t)
UnweightedMean(dom, t, col) == RMean(MapSeq(LAMBDA r : r[col], RowsOf(dom, t)))

OverallMode ==
    /\ called \in {{"calculate_movements"}, {"_create_movement_analysis"}}
    /\ raised = None
    /\ segment_col \in {None, "both"}

----------------------------------------------------------------------------
(* Further properties of the pattern detectors                             *)

\* the three shape conditions as a copy tests them (sections.py:399-403,
\* app.py:537-541, tier_progression.py:587-592)
ShapeCondition(copy, label, a, b, c) ==
    CASE label = U_SHAPE ->
            /\ RLt(b, a) /\ RGt(c, b)
            /\ (copy = "sections" => RGe(c, a))
      [] label = GROWTH -> RGt(c, b) /\ RGt(b, a)
      [] label = DECLINE -> RGt(a, b) /\ RGt(b, c)

ShapeLabels == {U_SHAPE, GROWTH, DECLINE}

\* the shape conditions of a copy that the triple of df satisfies
ShapesHolding(copy) ==
    {l \in ShapeLabels : ShapeCondition(copy, l, Triple[1], Triple[2], Triple[3])}

\* C30: for every triple at most one of the conditions of U-Shape
\* Recovery, Consistent Growth and Steady Decline holds, and a copy's label
\* is the shape whose condition holds whatever the order of these three
\* tests; a shape label is never given without its condition.
C30_ShapesExclusive ==
    ThreeTerms =>
        \A c \in Copies :
            /\ Cardinality(ShapesHolding(c)) <= 1
            /\ \A l \in ShapesHolding(c) : LabelsOf(c) = {l}
            /\ LabelsOf(c) \cap ShapeLabels \subseteq ShapesHolding(c)

\* (40, 30, 41): the U-shape condition holds inside the Stable band and
\* every copy says U-Shape Recovery
C30_Witness ==
    /\ TripleIs(40, 30, 41)
    /\ Copies = {"sections", "app", "tier_progression"}
    /\ \A c \in Copies : LabelsOf(c) = {U_SHAPE}

----------------------------------------------------------------------------
(* Properties of the trend pipeline                                        *)

\* the movements of a domain, in period order
MovementsOf(dom) == SelectSeq(movement_df, LAMBDA r : r.Domain = dom)

\* C27: for a domain whose first three terms have the Tier-3 values
\* (a, b, c), the pattern label and the movements a -> b and b -> c agree:
\* Consistent Growth with no Decline, Steady Decline with no Improvement,
\* U-Shape Recovery with a first movement that is not Improvement and a
\* second that is not Decline.
C27_LabelAgreesWithMovements ==
    \A i \in 1..Len(notes.app) :
        LET note == notes.app[i]
            moves == MovementsOf(note.domain)
        IN  Len(moves) >= 2 =>
              /\ note.pattern = GROWTH =>
                    moves[1].Movement /= "Decline" /\ moves[2].Movement /= "Decline"
              /\ note.pattern = DECLINE =>
                    moves[1].Movement /= "Improvement" /\ moves[2].Movement /= "Improvement"
              /\ note.pattern = U_SHAPE =>
                    moves[1].Movement /= "Improvement" /\ moves[2].Movement /= "Decline"

\* a growth label beside two Stable movements (40, 41, 42)
C27_Witness ==
    \E i \in 1..Len(notes.app) :
        LET moves == MovementsOf(notes.app[i].domain)
        IN  /\ notes.app[i].pattern = GROWTH
            /\ Len(moves) >= 2
            /\ moves[1].Movement = "Stable"
            /\ moves[2].Movement = "Stable"

----------------------------------------------------------------------------
(* Further properties of the recommendations                               *)

\* every latest-term row has percentages that sum to 100 and the index of
\* the weighted formula
LatestRowsWellFormed ==
    LET rows == LatestRows
    IN  \A i \in 1..Len(rows) :
            /\ PctSum(rows[i]) = Hundred
            /\ RMulInt(100, rows[i].dominant_index) = WeightedPct(rows[i])

\* C28: when every latest-term row has percentages summing to 100 and the
\* index of the weighted formula, a domain's index is below 2.0 exactly
\* when its Tier-1 share exceeds its Tier-3 share, and the Progression
\* Acceleration call-out lists exactly the domains whose latest-term mean
\* Tier-1 share is greater than their mean Tier-3 share.
C28_LowIndexIffTier1AboveTier3 ==
    (Narrated /\ LatestRowsWellFormed) =>
        LET idx == [d \in LatestDomains |-> DomainMean(d, "dominant_index")]
            t1 == [d \in LatestDomains |-> DomainMean(d, "tier_mix_t1_pct")]
            t3 == [d \in LatestDomains |-> DomainMean(d, "tier_mix_t3_pct")]
        IN  /\ \A d \in LatestDomains : RLt(idx[d], FromInt(2)) <=> RGt(t1[d], t3[d])
            /\ ListedBy("Progression Acceleration") =
                  {d \in LatestDomains : RGt(t1[d], t3[d])}

\* a domain listed on the mean of two rows, one of which has equal shares
\* of Tier 1 and Tier 3, beside a domain of equal shares that is not listed
C28_Witness ==
    /\ Narrated /\ LatestRowsWellFormed
    /\ \E d \in ListedBy("Progression Acceleration") :
          \E i \in 1..Len(LatestRows) :
              /\ LatestRows[i].domain = d
              /\ LatestRows[i].tier_mix_t3_pct = LatestRows[i].tier_mix_t1_pct
    /\ \E d \in LatestDomains \ ListedBy("Progression Acceleration") :
          DomainMean(d, "tier_mix_t1_pct") = DomainMean(d, "tier_mix_t3_pct")

====
